---------------------------- MODULE Spec2Model ----------------------------
(***************************************************************************)
(* Template expansion engine of the ts library (src/unnamed/part_002):     *)
(* getNestedValue, processSimplePlaceholders, processRepeats and           *)
(* processTemplate, together with the DOM operations they call (innerHTML  *)
(* and outerHTML getters and setters, the TreeWalker filter).              *)
(*                                                                         *)
(* A JavaScript string is a sequence of atoms.  An atom is one character   *)
(* ("{", "}", ".", " ", "=", the double quote, "$", "&", ...), or a run of *)
(* characters that no regular expression and no tokenizer rule of the code *)
(* splits (a word such as "name", a tag opener "<div", a closing tag       *)
(* "</div>", a character reference "&amp;").                               *)
(***************************************************************************)
EXTENDS Integers, Sequences, FiniteSets, TLC

\* ------------------------------------------------------------------------
\* Characters that the code's regular expressions and the HTML tokenizer
\* tell apart.
QUOTE == "\""
WS == " "
LB == "{"
RB == "}"
DOT == "."
EQ == "="
GT == ">"
REPEAT == "ts-repeat"
BACKTICK == "[backtick]"
APOS == "'"

Tags == {"div", "span"}
OpenAtom(t) == IF t = "div" THEN "<div" ELSE "<span"
CloseAtom(t) == IF t = "div" THEN "</div>" ELSE "</span>"
IsOpenAtom(a) == a \in {"<div", "<span"}
IsCloseAtom(a) == a \in {"</div>", "</span>"}
TagOfAtom(a) == IF a \in {"<div", "</div>"} THEN "div" ELSE "span"
\* "div" is in the HTML parser's special category, "span" is not
IsSpecialTag(t) == t = "div"

\* ------------------------------------------------------------------------
\* Sequence helpers
RECURSIVE Flatten(_)
Flatten(ss) == IF ss = <<>> THEN <<>> ELSE Head(ss) \o Flatten(Tail(ss))

\* s[i..] as a sequence
From(s, i) == SubSeq(s, i, Len(s))

\* does p occur in s at index i
OccursAt(s, p, i) == /\ i >= 1
                     /\ i + Len(p) - 1 <= Len(s)
                     /\ SubSeq(s, i, i + Len(p) - 1) = p

\* first index at which p occurs in s, 0 when it does not occur
IndexOf(s, p) ==
    LET hits == {i \in 1..(Len(s) - Len(p) + 1) : OccursAt(s, p, i)}
    IN IF hits = {} THEN 0 ELSE CHOOSE i \in hits : \A j \in hits : i <= j

\* ------------------------------------------------------------------------
\* DOM nodes.  A text node holds one character; a run of adjacent text
\* nodes stands for one DOM Text node.
TextNode(c) == [tag |-> "#text", attrs |-> <<>>, kids |-> <<>>, ch |-> c]
Element(t, as, ks) == [tag |-> t, attrs |-> as, kids |-> ks, ch |-> ""]
IsElement(n) == n.tag # "#text"
Attr(name, value) == [n |-> name, v |-> value]

\* element.hasAttribute(name): name is a sequence of atoms
hasAttribute(el, name) == \E i \in 1..Len(el.attrs) : el.attrs[i].n = name

\* element.getAttribute(name), for an element that has the attribute
getAttribute(el, name) ==
    LET i == CHOOSE k \in 1..Len(el.attrs) : el.attrs[k].n = name
    IN el.attrs[i].v

\* ------------------------------------------------------------------------
\* Character references that the HTML tokenizer decodes and the serializer
\* produces.
DecodeChar(a) == IF a = "&amp;" THEN "&"
                 ELSE IF a = "&quot;" THEN QUOTE
                 ELSE IF a = "&lt;" THEN "<"
                 ELSE IF a = "&gt;" THEN GT
                 ELSE a
EscapeText(c) == IF c = "&" THEN "&amp;"
                 ELSE IF c = "<" THEN "&lt;"
                 ELSE IF c = GT THEN "&gt;"
                 ELSE c
EscapeAttr(c) == IF c = "&" THEN "&amp;"
                 ELSE IF c = QUOTE THEN "&quot;"
                 ELSE c

DecodeAll(s) == [i \in 1..Len(s) |-> DecodeChar(s[i])]

\* ------------------------------------------------------------------------
\* innerHTML / outerHTML getter: the HTML fragment serialization algorithm
RECURSIVE SerializeNodes(_)
SerializeAttr(a) ==
    <<WS>> \o a.n \o <<EQ, QUOTE>> \o [i \in 1..Len(a.v) |-> EscapeAttr(a.v[i])] \o <<QUOTE>>
SerializeNode(n) ==
    IF IsElement(n)
    THEN <<OpenAtom(n.tag)>> \o Flatten([i \in 1..Len(n.attrs) |-> SerializeAttr(n.attrs[i])]) \o <<GT>>
         \o SerializeNodes(n.kids) \o <<CloseAtom(n.tag)>>
    ELSE <<EscapeText(n.ch)>>
SerializeNodes(ns) == Flatten([i \in 1..Len(ns) |-> SerializeNode(ns[i])])

\* ------------------------------------------------------------------------
\* innerHTML / outerHTML setter: the HTML fragment parsing algorithm, for
\* the elements div and span.

\* first index >= i of s holding an atom of stop, Len(s)+1 when there is none
RECURSIVE ScanTo(_, _, _)
ScanTo(s, i, stop) ==
    IF i > Len(s) \/ s[i] \in stop THEN i ELSE ScanTo(s, i + 1, stop)

RECURSIVE SkipSpaces(_, _)
SkipSpaces(s, i) ==
    IF i <= Len(s) /\ s[i] = WS THEN SkipSpaces(s, i + 1) ELSE i

\* a later attribute of the same name is dropped by the tokenizer
AddAttr(attrs, name, value) ==
    IF \E k \in 1..Len(attrs) : attrs[k].n = name
    THEN attrs
    ELSE Append(attrs, Attr(name, value))

\* Tokenizer states "before attribute name" .. "after attribute value":
\* reads the attributes of a start tag from index i on.  ok is FALSE when
\* the input ends inside the tag (the tag is then dropped).
RECURSIVE ReadAttrs(_, _, _)
ReadAttrs(s, i, attrs) ==
    IF i > Len(s) THEN [ok |-> FALSE, attrs |-> attrs, next |-> i]
    ELSE IF s[i] = WS THEN ReadAttrs(s, i + 1, attrs)
    ELSE IF s[i] = GT THEN [ok |-> TRUE, attrs |-> attrs, next |-> i + 1]
    ELSE
      LET ne == ScanTo(s, i + 1, {WS, GT, EQ})
          name == SubSeq(s, i, ne - 1)
          an == SkipSpaces(s, ne)
      IN IF an <= Len(s) /\ s[an] = EQ
         THEN LET vs == SkipSpaces(s, an + 1)
              IN IF vs > Len(s) THEN [ok |-> FALSE, attrs |-> attrs, next |-> vs]
                 ELSE IF s[vs] = QUOTE
                 THEN LET q == ScanTo(s, vs + 1, {QUOTE})
                      IN IF q > Len(s)
                         THEN [ok |-> FALSE, attrs |-> attrs, next |-> q]
                         ELSE ReadAttrs(s, q + 1,
                                  AddAttr(attrs, name,
                                     DecodeAll(SubSeq(s, vs + 1, q - 1))))
                 ELSE IF s[vs] = GT
                 THEN ReadAttrs(s, vs, AddAttr(attrs, name, <<>>))
                 ELSE LET ue == ScanTo(s, vs, {WS, GT})
                      IN ReadAttrs(s, ue,
                             AddAttr(attrs, name,
                                DecodeAll(SubSeq(s, vs, ue - 1))))
         ELSE ReadAttrs(s, ne, AddAttr(attrs, name, <<>>))

\* Stack of open elements; frame 1 is the container the fragment is parsed
\* into.
Frame(t, as) == [tag |-> t, attrs |-> as, kids |-> <<>>]
PopOne(stack) ==
    LET n == Len(stack)
        top == stack[n]
        par == stack[n - 1]
    IN Append(SubSeq(stack, 1, n - 2),
              [par EXCEPT !.kids = Append(@, Element(top.tag, top.attrs, top.kids))])
RECURSIVE PopTo(_, _)
PopTo(stack, d) == IF Len(stack) <= d THEN stack ELSE PopTo(PopOne(stack), d)
AddChild(stack, node) ==
    [stack EXCEPT ![Len(stack)] = [@ EXCEPT !.kids = Append(@, node)]]

\* "in body" insertion mode, end tag: a special element (div) closes
\* everything up to the nearest open div; any other end tag (span) is
\* ignored when a special element is open above the nearest open span.
EndTag(stack, t) ==
    LET open == {k \in 2..Len(stack) : stack[k].tag = t}
    IN IF open = {} THEN stack
       ELSE LET k == CHOOSE x \in open : \A y \in open : y <= x
            IN IF /\ ~IsSpecialTag(t)
                  /\ \E j \in (k + 1)..Len(stack) : IsSpecialTag(stack[j].tag)
               THEN stack
               ELSE PopTo(stack, k - 1)

RECURSIVE ParseFrom(_, _, _)
ParseFrom(s, i, stack) ==
    IF i > Len(s) THEN PopTo(stack, 1)[1].kids
    ELSE IF IsOpenAtom(s[i])
    THEN LET r == ReadAttrs(s, i + 1, <<>>)
         IN IF r.ok
            THEN ParseFrom(s, r.next, Append(stack, Frame(TagOfAtom(s[i]), r.attrs)))
            ELSE PopTo(stack, 1)[1].kids
    ELSE IF IsCloseAtom(s[i])
    THEN ParseFrom(s, i + 1, EndTag(stack, TagOfAtom(s[i])))
    ELSE ParseFrom(s, i + 1, AddChild(stack, TextNode(DecodeChar(s[i]))))

ParseHTML(s) == ParseFrom(s, 1, <<Frame("#root", <<>>)>>)


\* ------------------------------------------------------------------------
\* JavaScript values (decoded JSON, plus what property lookup can reach)
Undefined == [t |-> "undefined"]
Null == [t |-> "null"]
Str(s) == [t |-> "string", s |-> s]
Num(n) == [t |-> "number", n |-> n]
Arr(a) == [t |-> "array", a |-> a]
Obj(o) == [t |-> "object", o |-> o]
Fn == [t |-> "function"]
EmptyObj == Obj(<<>>)

\* property names every object inherits from Object.prototype (and every
\* array from Array.prototype); "constructor" stands for all of them
InheritedKeys == {"constructor"}

DigitAtoms == <<"0", "1", "2", "3", "4", "5", "6", "7", "8", "9">>
IsDigit(a) == \E d \in 1..10 : DigitAtoms[d] = a
DigitValue(a) == (CHOOSE d \in 1..10 : DigitAtoms[d] = a) - 1

\* Number -> decimal string
RECURSIVE Digits(_)
Digits(n) == IF n < 10 THEN <<DigitAtoms[n + 1]>>
             ELSE Digits(n \div 10) \o <<DigitAtoms[(n % 10) + 1]>>

\* canonical array index written by part, -1 when part is not one
RECURSIVE DecimalValue(_)
DecimalValue(part) ==
    IF part = <<>> THEN 0
    ELSE 10 * DecimalValue(SubSeq(part, 1, Len(part) - 1)) + DigitValue(part[Len(part)])
ArrayIndex(part) ==
    IF /\ part # <<>>
       /\ \A k \in 1..Len(part) : IsDigit(part[k])
       /\ (Len(part) = 1 \/ part[1] # "0")
    THEN DecimalValue(part)
    ELSE -1

\* typeof current === 'object' && current !== null
IsObjectTyped(v) == v.t \in {"object", "array"}

\* part in current
HasProperty(v, part) ==
    IF Len(part) = 1 /\ part[1] \in InheritedKeys THEN TRUE
    ELSE IF v.t = "object" THEN Len(part) = 1 /\ part[1] \in DOMAIN v.o
    ELSE \/ part = <<"length">>
         \/ (ArrayIndex(part) >= 0 /\ ArrayIndex(part) < Len(v.a))

\* current[part], for a part that is in current
GetProperty(v, part) ==
    IF v.t = "object"
    THEN IF part[1] \in DOMAIN v.o THEN v.o[part[1]] ELSE Fn
    ELSE IF part = <<"length">> THEN Num(Len(v.a))
    ELSE IF ArrayIndex(part) >= 0 THEN v.a[ArrayIndex(part) + 1]
    ELSE Fn

\* path.split('.')
RECURSIVE Split(_, _)
Split(s, sep) ==
    LET i == ScanTo(s, 1, {sep})
    IN IF i > Len(s) THEN <<s>>
       ELSE <<SubSeq(s, 1, i - 1)>> \o Split(From(s, i + 1), sep)

RECURSIVE WalkParts(_, _)
WalkParts(current, parts) ==
    IF parts = <<>> THEN current
    ELSE IF ~IsObjectTyped(current) \/ ~HasProperty(current, Head(parts))
    THEN Undefined
    ELSE WalkParts(GetProperty(current, Head(parts)), Tail(parts))

getNestedValue(obj, path) == WalkParts(obj, Split(path, DOT))

\* String(value)
RECURSIVE StringOf(_)
JoinElement(v) == IF v.t \in {"null", "undefined"} THEN <<>> ELSE StringOf(v)
RECURSIVE JoinComma(_)
JoinComma(a) ==
    IF a = <<>> THEN <<>>
    ELSE IF Len(a) = 1 THEN JoinElement(a[1])
    ELSE JoinElement(a[1]) \o <<",">> \o JoinComma(Tail(a))
StringOf(v) ==
    IF v.t = "string" THEN v.s
    ELSE IF v.t = "number" THEN Digits(v.n)
    ELSE IF v.t = "null" THEN <<"null">>
    ELSE IF v.t = "undefined" THEN <<"undefined">>
    ELSE IF v.t = "array" THEN JoinComma(v.a)
    ELSE IF v.t = "object" THEN <<"[object Object]">>
    ELSE <<"function Object() { [native code] }">>

\* ------------------------------------------------------------------------
\* html.match(/{{([^{}]+)}}/g)

\* index of the last atom of a match that starts at i, 0 when the regular
\* expression does not match at i
PlaceholderEnd(html, i) ==
    IF i + 1 <= Len(html) /\ html[i] = LB /\ html[i + 1] = LB
    THEN LET j == ScanTo(html, i + 2, {LB, RB})
         IN IF j > i + 2 /\ j + 1 <= Len(html) /\ html[j] = RB /\ html[j + 1] = RB
            THEN j + 1
            ELSE 0
    ELSE 0

RECURSIVE MatchFrom(_, _)
MatchFrom(html, i) ==
    IF i > Len(html) THEN <<>>
    ELSE LET e == PlaceholderEnd(html, i)
         IN IF e = 0 THEN MatchFrom(html, i + 1)
            ELSE <<SubSeq(html, i, e)>> \o MatchFrom(html, e + 1)
MatchPlaceholders(html) == MatchFrom(html, 1)

\* placeholder.slice(2, -2).trim()
RECURSIVE TrimLeft(_)
TrimLeft(s) == IF s # <<>> /\ s[1] = WS THEN TrimLeft(Tail(s)) ELSE s
RECURSIVE TrimRight(_)
TrimRight(s) ==
    IF s # <<>> /\ s[Len(s)] = WS THEN TrimRight(SubSeq(s, 1, Len(s) - 1)) ELSE s
Trim(s) == TrimLeft(TrimRight(s))
\* the captured path taken as it stands, not trimmed
PlaceholderKeyUntrimmed(placeholder) == SubSeq(placeholder, 3, Len(placeholder) - 2)
PlaceholderKey(placeholder) == Trim(SubSeq(placeholder, 3, Len(placeholder) - 2))

\* GetSubstitution of String.prototype.replace for a string pattern: in the
\* replacement text $$ gives $, $& the matched text, $ followed by a backtick
\* the text before the match and $ followed by an apostrophe the text after it
RECURSIVE GetSubstitution(_, _, _, _)
GetSubstitution(matched, before, after, repl) ==
    IF repl = <<>> THEN <<>>
    ELSE IF repl[1] = "$" /\ Len(repl) >= 2 /\ repl[2] \in {"$", "&", BACKTICK, APOS}
    THEN (IF repl[2] = "$" THEN <<"$">>
          ELSE IF repl[2] = "&" THEN matched
          ELSE IF repl[2] = BACKTICK THEN before
          ELSE after)
         \o GetSubstitution(matched, before, after, From(repl, 3))
    ELSE <<repl[1]>> \o GetSubstitution(matched, before, after, Tail(repl))

\* html.replace(pattern, repl) with a string pattern: the first occurrence
ReplaceFirst(html, pattern, repl) ==
    LET i == IndexOf(html, pattern)
    IN IF i = 0 THEN html
       ELSE LET before == SubSeq(html, 1, i - 1)
                after == From(html, i + Len(pattern))
            IN before \o GetSubstitution(pattern, before, after, repl) \o after

\* SubstituteOne that leaves a placeholder in place when its path is absent
SubstituteOneKeepAbsent(html, placeholder, data) ==
    IF getNestedValue(data, PlaceholderKey(placeholder)).t = "undefined"
    THEN html
    ELSE ReplaceFirst(html, placeholder,
                      StringOf(getNestedValue(data, PlaceholderKey(placeholder))))

\* the body of placeholders.forEach
SubstituteOne(html, placeholder, data) ==
    LET key == PlaceholderKey(placeholder)
        value == getNestedValue(data, key)
    IN ReplaceFirst(html, placeholder,
                    IF value.t # "undefined" THEN StringOf(value) ELSE <<>>)

RECURSIVE SubstituteEach(_, _, _)
SubstituteEach(html, placeholders, data) ==
    IF placeholders = <<>> THEN html
    ELSE SubstituteEach(SubstituteOne(html, Head(placeholders), data),
                        Tail(placeholders), data)

processSimplePlaceholders(html, data) ==
    SubstituteEach(html, MatchPlaceholders(html), data)

\* ------------------------------------------------------------------------
\* element.outerHTML.replace(/\s*ts-repeat="[^"]*"/g, '')

\* index of the last atom of a match that starts at i, 0 when there is none
RepeatAttrEnd(s, i) ==
    LET k == SkipSpaces(s, i)
    IN IF /\ k + 2 <= Len(s)
          /\ s[k] = REPEAT /\ s[k + 1] = EQ /\ s[k + 2] = QUOTE
       THEN LET q == ScanTo(s, k + 3, {QUOTE})
            IN IF q <= Len(s) THEN q ELSE 0
       ELSE 0

RECURSIVE StripFrom(_, _)
StripFrom(s, i) ==
    IF i > Len(s) THEN <<>>
    ELSE LET e == RepeatAttrEnd(s, i)
         IN IF e = 0 THEN <<s[i]>> \o StripFrom(s, i + 1)
            ELSE StripFrom(s, e + 1)
\* the same replace without the g flag: the first match only
RECURSIVE StripFirstFrom(_, _)
StripFirstFrom(s, i) ==
    IF i > Len(s) THEN <<>>
    ELSE IF RepeatAttrEnd(s, i) = 0 THEN <<s[i]>> \o StripFirstFrom(s, i + 1)
    ELSE From(s, RepeatAttrEnd(s, i) + 1)
StripRepeatAttrFirst(s) == StripFirstFrom(s, 1)
StripRepeatAttrs(s) == StripFrom(s, 1)

\* ------------------------------------------------------------------------
\* processRepeats(container, data): the children of the container after the
\* call, and the warnings logged, in order
RepeatName == <<REPEAT>>

RECURSIVE processRepeats(_, _)

\* lines 81-84: the html of one per-item copy, from the copy's container
\* after the recursive call
FinishItem(r, item) ==
    [html |-> processSimplePlaceholders(SerializeNodes(r.nodes), item),
     warns |-> r.warns]

\* collection.map(item => ...), one item
ItemHtml(itemTemplate, item) ==
    FinishItem(processRepeats(ParseHTML(itemTemplate), item), item)

\* .join('') and element.outerHTML = itemsHtml
JoinItems(items) ==
    [nodes |-> ParseHTML(Flatten([i \in 1..Len(items) |-> items[i].html])),
     warns |-> Flatten([i \in 1..Len(items) |-> items[i].warns])]

\* ExpandCollection that leaves the element in place when the path does not
\* resolve to an array
ExpandCollectionKeepInvalid(element, arrayPath, collection) ==
    IF collection.t # "array"
    THEN [nodes |-> <<element>>, warns |-> <<arrayPath>>]
    ELSE JoinItems([i \in 1..Len(collection.a) |->
                       ItemHtml(StripRepeatAttrs(SerializeNode(element)),
                                collection.a[i])])

\* ExpandCollection that leaves one unfilled copy when the array is empty
ExpandCollectionKeepEmpty(element, arrayPath, collection) ==
    IF collection.t # "array"
    THEN [nodes |-> <<>>, warns |-> <<arrayPath>>]
    ELSE IF collection.a = <<>>
    THEN [nodes |-> ParseHTML(StripRepeatAttrs(SerializeNode(element))),
          warns |-> <<>>]
    ELSE JoinItems([i \in 1..Len(collection.a) |->
                       ItemHtml(StripRepeatAttrs(SerializeNode(element)),
                                collection.a[i])])

\* ExpandCollection that stops one item short
ExpandCollectionSkipLast(element, arrayPath, collection) ==
    IF collection.t # "array"
    THEN [nodes |-> <<>>, warns |-> <<arrayPath>>]
    ELSE JoinItems([i \in 1..(Len(collection.a) - 1) |->
                       ItemHtml(StripRepeatAttrs(SerializeNode(element)),
                                collection.a[i])])

\* lines 66-87, for the collection the path resolved to
ExpandCollection(element, arrayPath, collection) ==
    IF collection.t # "array"
    THEN [nodes |-> <<>>, warns |-> <<arrayPath>>]
    ELSE JoinItems([i \in 1..Len(collection.a) |->
                       ItemHtml(StripRepeatAttrs(SerializeNode(element)),
                                collection.a[i])])

ExpandPath(element, arrayPath, data) ==
    ExpandCollection(element, arrayPath, getNestedValue(data, arrayPath))

\* the body of topLevelRepeats.forEach for one accepted element
ExpandRepeat(element, data) ==
    ExpandPath(element, getAttribute(element, RepeatName), data)

\* an element the walker skipped, with its children after the walk
WithKids(n, r) == [nodes |-> <<[n EXCEPT !.kids = r.nodes]>>, warns |-> r.warns]

\* TreeWalker filter and forEach: an element with ts-repeat that has no
\* ancestor with ts-repeat below the container is expanded; the walk
\* descends into every other element
ExpandNode(n, data) ==
    IF ~IsElement(n) THEN [nodes |-> <<n>>, warns |-> <<>>]
    ELSE IF hasAttribute(n, RepeatName) THEN ExpandRepeat(n, data)
    ELSE WithKids(n, processRepeats(n.kids, data))

\* the container's children and the log, from the results per child
Collect(rs) ==
    [nodes |-> Flatten([i \in 1..Len(rs) |-> rs[i].nodes]),
     warns |-> Flatten([i \in 1..Len(rs) |-> rs[i].warns])]

processRepeats(nodes, data) ==
    Collect([i \in 1..Len(nodes) |-> ExpandNode(nodes[i], data)])

\* lines 25-27
FinishTemplate(r, data) ==
    [html |-> processSimplePlaceholders(SerializeNodes(r.nodes), data),
     warns |-> r.warns]

\* processTemplate with the two passes in the other order: placeholders
\* first, directives after
processTemplateSubstituteFirst(template, data) ==
    [html |-> SerializeNodes(
                  processRepeats(ParseHTML(processSimplePlaceholders(template, data)),
                                 data).nodes),
     warns |-> processRepeats(ParseHTML(processSimplePlaceholders(template, data)),
                              data).warns]

\* processTemplate without the pass through the DOM
processTemplateRaw(template, data) ==
    [html |-> processSimplePlaceholders(template, data), warns |-> <<>>]

processTemplate(template, data) ==
    FinishTemplate(processRepeats(ParseHTML(template), data), data)

\* ------------------------------------------------------------------------
\* Inputs: templates and data values, within bounds
MaxGroups == 2
MaxItems == 2
MaxPieces == 3
\* a second substitution pass is explored on results holding at most this
\* many placeholders (a value such as $' multiplies them at every
\* replacement)
MaxRescan == 4
\* atoms of a key path given to getNestedValue
MaxPathLen == 3
\* ts-component elements in the document
MaxElements == 2

\* {{key}}
Placeholder(key) == <<LB, LB>> \o key \o <<RB, RB>>
\* the attribute text  ts-repeat="path"
RepeatAttr(path) == <<WS, REPEAT, EQ, QUOTE>> \o path \o <<QUOTE>>
\* <tag attrs>inner</tag>
ElementHtml(tag, attrs, inner) ==
    <<OpenAtom(tag)>> \o attrs \o <<GT>> \o inner \o <<CloseAtom(tag)>>

\* text that a string value may carry
TokenText == Placeholder(<<"title">>)
MarkupText == ElementHtml("span", RepeatAttr(<<"items">>), <<>>)

\* Templates with up to two top-level elements, the first holding a nested
\* element:  pre <div r1> hdr <span r2> {{name}} </span> </div> tail
PreHtml == <<"x">> \o Placeholder(<<"title">>)
HeaderHtml == Placeholder(<<"name">>) \o Placeholder(<<"title">>)
OuterRepeatChoices ==
    {<<>>, RepeatAttr(<<"groups">>), RepeatAttr(<<"title">>), RepeatAttr(<<"items">>),
     RepeatAttr(<<>>)}
InnerRepeatChoices == {<<>>, RepeatAttr(<<"items">>)}
TailChoices ==
    {<<>>, ElementHtml("span", RepeatAttr(<<"groups">>), Placeholder(<<"name">>))}
NestedTemplate(pre, r1, hdr, r2, tail) ==
    pre \o ElementHtml("div", r1,
                       hdr \o ElementHtml("span", r2, Placeholder(<<"name">>)))
        \o tail
NestedTemplates ==
    {NestedTemplate(PreHtml, r1, HeaderHtml, r2, tail) :
        r1 \in OuterRepeatChoices, r2 \in InnerRepeatChoices, tail \in TailChoices}

\* Data: a root object with an optional title and optional groups; every
\* group has its own items array, and names tell groups and items apart
NameKinds == {"plain", "none", "token", "markup"}
ItemKinds == {"object", "scalar"}
ItemValue(itemKind, k, i) ==
    LET label == <<"I", DigitAtoms[k + 1], DigitAtoms[i + 1]>>
    IN IF itemKind = "object" THEN Obj("name" :> Str(label)) ELSE Str(label)
GroupName(nameKind, k) ==
    IF nameKind = "plain" THEN Str(<<"G", DigitAtoms[k + 1]>>)
    ELSE IF nameKind = "token" THEN Str(TokenText)
    ELSE Str(MarkupText)
GroupValue(nameKind, itemKind, k, count) ==
    LET items == "items" :> Arr([i \in 1..count |-> ItemValue(itemKind, k, i)])
    IN IF nameKind = "none" THEN Obj(items)
       ELSE Obj(("name" :> GroupName(nameKind, k)) @@ items)
CountSeqs == UNION {[1..n -> 0..MaxItems] : n \in 0..MaxGroups}
GroupArrays ==
    {Arr([k \in 1..Len(counts) |-> GroupValue(nameKind, "object", k, counts[k])]) :
        counts \in CountSeqs, nameKind \in NameKinds}
GroupsChoices == GroupArrays \cup {Null, Str(<<"S">>), EmptyObj}
RootObjects ==
    {Obj("groups" :> g) : g \in GroupsChoices}
    \cup {Obj(("title" :> Str(<<"Page">>)) @@ ("groups" :> g)) : g \in GroupsChoices}
    \cup {EmptyObj, Obj("title" :> Str(<<"Page">>))}
GroupObjects ==
    {GroupValue(nameKind, itemKind, 1, count) :
        nameKind \in NameKinds, itemKind \in ItemKinds, count \in 0..MaxItems}
DataValues == RootObjects \cup GroupObjects

\* Markup strings for substitution: up to MaxPieces pieces, each an opening
\* brace, a character or a placeholder
Pieces == {<<LB>>, <<"x">>, Placeholder(<<"a">>), Placeholder(<<"b">>),
           Placeholder(<<WS, "a", WS>>)}
Markups == {Flatten(ps) : ps \in UNION {[1..n -> Pieces] : n \in 0..MaxPieces}}
ScopeStrings == {<<"A">>, <<LB>>, Placeholder(<<"b">>), <<"$", "&">>, <<"$", APOS>>}
Scopes ==
    {Obj("a" :> Str(v)) : v \in ScopeStrings}
    \cup {Obj(("a" :> Str(v)) @@ ("b" :> Str(<<"B">>))) :
              v \in {Placeholder(<<"b">>), <<"$", APOS>>}}
    \cup {EmptyObj, Obj("b" :> Str(<<"B">>)), Null, Str(<<"A">>),
          Arr(<<Str(<<"A">>)>>), Obj("a" :> Null), Obj("a" :> Num(10)),
          Obj("a" :> EmptyObj)}

\* Markup without directives: text, character references, tags that are
\* closed, left open or closed without having been opened
PlainPieces == {<<"x">>, <<"&">>, <<"&amp;">>, <<"<div", GT>>, <<"</div>">>,
                <<"</span>">>}
PlainMarkups ==
    {Flatten(ps) : ps \in UNION {[1..n -> PlainPieces] : n \in 0..MaxPieces}}
PlainData == {EmptyObj, Null}

\* ------------------------------------------------------------------------
\* State: the arguments of one call, where the call stands, what it
\* returned and what it logged
\* Key paths: names, an array index, "length", an inherited name, dots
PathAtoms == {"a", "0", "length", "constructor", DOT}
Paths == UNION {[1..n -> PathAtoms] : n \in 1..MaxPathLen}
LookupData ==
    {EmptyObj, Null, Undefined, Str(<<"A">>), Num(7),
     Arr(<<Str(<<"A">>), Str(<<"B">>)>>),
     Obj("a" :> Str(<<"A">>)),
     Obj("a" :> Arr(<<Str(<<"A">>)>>)),
     Obj("a" :> Obj("a" :> Num(7))),
     Obj("a" :> Null)}

\* The document's ts-component elements: component name, whether a data-url
\* attribute is set, and the element's innerHTML
ComponentNames == {"card", "constructor"}
OldContent == <<"o">>
ComponentElement(name, hasDataUrl) ==
    [name |-> name, dataUrl |-> hasDataUrl, content |-> OldContent]
ElementKinds ==
    {ComponentElement(name, u) : name \in ComponentNames, u \in BOOLEAN}
Documents == UNION {[1..n -> ElementKinds] : n \in 0..MaxElements}
\* what a template url may answer with, and what a data url may
TemplateTexts == {<<>>, <<"x">> \o Placeholder(<<"title">>)}
ComponentData == {EmptyObj, Obj("title" :> Str(<<"Page">>)), Null}
TemplateUrls == {<<>>, <<"u">>}

VARIABLES template, data, pc, html, warns, prev, path, value,
          componentElements, registeredComponents, componentTemplates, frame, log
\* the container and the flag of the while loop of src/unnamed/part_001, the
\* elements and the promises of ts.includeHTML
VARIABLES container, changed, includeElements, fetchPromises
otherVars == <<container, changed, includeElements, fetchPromises>>
registryVars ==
    <<componentElements, registeredComponents, componentTemplates, frame, log>>
\* what the component loop leaves alone, and what the pure functions do
pureVars == <<template, data, pc, html, warns, prev, path, value, otherVars>>
componentVars ==
    <<componentElements, registeredComponents, componentTemplates, frame, log,
      otherVars>>
vars == <<template, data, pc, html, warns, prev, path, value,
          componentElements, registeredComponents, componentTemplates, frame, log,
          container, changed, includeElements, fetchPromises>>

\* position in initComponents: the element in hand and the local templateHtml
Frame0 == [at |-> "idle", i |-> 0, templateHtml |-> Undefined]
NoComponents ==
    /\ componentElements = <<>>
    /\ registeredComponents = <<>>
    /\ componentTemplates = <<>>
    /\ frame = Frame0
    /\ log = <<>>
NoOthers ==
    /\ container = <<>>
    /\ changed = FALSE
    /\ includeElements = <<>>
    /\ fetchPromises = <<>>

Init ==
    /\ \/ template \in NestedTemplates /\ data \in DataValues
          /\ path = <<>> /\ pc = "ready"
       \/ template \in Markups /\ data \in Scopes
          /\ path = <<>> /\ pc = "ready"
       \/ template \in PlainMarkups /\ data \in PlainData
          /\ path = <<>> /\ pc = "ready"
       \/ template = <<>> /\ data \in LookupData
          /\ path \in Paths /\ pc = "lookup"
    /\ html = <<>>
    /\ warns = <<>>
    /\ prev = <<>>
    /\ value = Undefined
    /\ NoComponents
    /\ NoOthers

\* processTemplate(template, data)
Render ==
    /\ pc = "ready"
    /\ \E r \in {processTemplate(template, data)} :
          /\ html' = r.html
          /\ warns' = r.warns
    /\ pc' = "rendered"
    /\ UNCHANGED <<template, data, prev, path, value>>
    /\ UNCHANGED componentVars

\* processSimplePlaceholders(template, data)
Substitute ==
    /\ pc = "ready"
    /\ html' = processSimplePlaceholders(template, data)
    /\ pc' = "substituted"
    /\ UNCHANGED <<template, data, warns, prev, path, value>>
    /\ UNCHANGED componentVars

\* processSimplePlaceholders applied to its own result, same scope
SubstituteAgain ==
    /\ pc = "substituted"
    /\ Len(MatchPlaceholders(html)) <= MaxRescan
    /\ prev' = html
    /\ html' = processSimplePlaceholders(html, data)
    /\ pc' = "resubstituted"
    /\ UNCHANGED <<template, data, warns, path, value>>
    /\ UNCHANGED componentVars

\* getNestedValue(data, path)
Lookup ==
    /\ pc = "lookup"
    /\ value' = getNestedValue(data, path)
    /\ pc' = "looked up"
    /\ UNCHANGED <<template, data, html, warns, prev, path>>
    /\ UNCHANGED componentVars

Next == Render \/ Substitute \/ SubstituteAgain \/ Lookup

Spec == Init /\ [][Next]_vars

\* ------------------------------------------------------------------------
\* Components: registerComponent and initComponents

\* obj[name] for one of the two plain objects {} that hold the registry and
\* the cache: own keys first, then what every object inherits
Entry(obj, name) ==
    IF name \in DOMAIN obj THEN Str(obj[name])
    ELSE IF name \in InheritedKeys THEN Fn
    ELSE Undefined
\* !v is false
Truthy(v) ==
    IF v.t = "string" THEN v.s # <<>>
    ELSE IF v.t = "number" THEN v.n # 0
    ELSE v.t \in {"array", "object", "function"}

Event(e, i, t, d) == [e |-> e, i |-> i, t |-> t, d |-> d]
\* the loop's continue / end of the loop body
NextElement(f) == [at |-> "element", i |-> f.i + 1, templateHtml |-> Undefined]

InitComponents ==
    /\ template = <<>>
    /\ data = Undefined
    /\ pc = "components"
    /\ html = <<>>
    /\ warns = <<>>
    /\ prev = <<>>
    /\ path = <<>>
    /\ value = Undefined
    /\ componentElements \in Documents
    /\ registeredComponents = <<>>
    /\ componentTemplates = <<>>
    /\ frame = Frame0
    /\ log = <<>>
    /\ NoOthers

\* ts.registerComponent(componentName, templateUrl), called by the page's
\* scripts before window.onload
registerComponent ==
    /\ frame.at = "idle"
    /\ \E componentName \in {"card"}, templateUrl \in TemplateUrls :
          IF templateUrl = <<>>
          THEN UNCHANGED registeredComponents
          ELSE registeredComponents' =
                   (componentName :> templateUrl) @@ registeredComponents
    /\ UNCHANGED <<componentElements, componentTemplates, frame, log>>
    /\ UNCHANGED pureVars

\* window.onload: initComponents starts on the elements of the document
StartComponents ==
    /\ frame.at = "idle"
    /\ frame' = [at |-> "element", i |-> 1, templateHtml |-> Undefined]
    /\ UNCHANGED <<componentElements, registeredComponents, componentTemplates, log>>
    /\ UNCHANGED pureVars

\* top of the loop body: the registry lookup
BeginElement ==
    /\ frame.at = "element"
    /\ frame.i <= Len(componentElements)
    /\ IF Truthy(Entry(registeredComponents, componentElements[frame.i].name))
       THEN /\ frame' = [frame EXCEPT !.at = "template"]
            /\ UNCHANGED log
       ELSE /\ frame' = NextElement(frame)
            /\ log' = Append(log, Event("unregistered", frame.i, <<>>, Undefined))
    /\ UNCHANGED <<componentElements, registeredComponents, componentTemplates>>
    /\ UNCHANGED pureVars

\* the cache test, and the template fetch with its outcome
TemplateCached ==
    /\ frame.at = "template"
    /\ Truthy(Entry(componentTemplates, componentElements[frame.i].name))
    /\ frame' = [frame EXCEPT
                    !.at = "data",
                    !.templateHtml =
                        Entry(componentTemplates, componentElements[frame.i].name)]
    /\ UNCHANGED <<componentElements, registeredComponents, componentTemplates, log>>
    /\ UNCHANGED pureVars

TemplateFetched ==
    /\ frame.at = "template"
    /\ ~Truthy(Entry(componentTemplates, componentElements[frame.i].name))
    /\ \E templateHtml \in TemplateTexts :
          /\ componentTemplates' =
                 (componentElements[frame.i].name :> templateHtml) @@ componentTemplates
          /\ frame' = [frame EXCEPT !.at = "data", !.templateHtml = Str(templateHtml)]
          /\ log' = log \o <<Event("fetch", frame.i, <<>>, Undefined),
                              Event("write", frame.i, templateHtml, Undefined)>>
    /\ UNCHANGED <<componentElements, registeredComponents>>
    /\ UNCHANGED pureVars

TemplateRejected ==
    /\ frame.at = "template"
    /\ ~Truthy(Entry(componentTemplates, componentElements[frame.i].name))
    /\ frame' = NextElement(frame)
    /\ log' = log \o <<Event("fetch", frame.i, <<>>, Undefined),
                        Event("rejected", frame.i, <<>>, Undefined)>>
    /\ UNCHANGED <<componentElements, registeredComponents, componentTemplates>>
    /\ UNCHANGED pureVars

\* element.innerHTML = renderedHtml, on every element instead of the one
SetContentOfAll(elements, i, renderedHtml) ==
    [k \in 1..Len(elements) |-> [elements[k] EXCEPT !.content = renderedHtml]]

\* element.innerHTML = renderedHtml
SetContent(elements, i, renderedHtml) ==
    [elements EXCEPT ![i].content = renderedHtml]

\* processTemplate(templateHtml, data) and the assignment of its result
RenderElement(d) ==
    /\ componentElements' =
           SetContent(componentElements, frame.i,
                      processTemplate(StringOf(frame.templateHtml), d).html)
    /\ log' = Append(log, Event("render", frame.i, StringOf(frame.templateHtml), d))
    /\ frame' = NextElement(frame)

\* the data of the element: {} without data-url, else the fetched object
DataReady ==
    /\ frame.at = "data"
    /\ IF componentElements[frame.i].dataUrl
       THEN \E d \in ComponentData : RenderElement(d)
       ELSE RenderElement(EmptyObj)
    /\ UNCHANGED <<registeredComponents, componentTemplates>>
    /\ UNCHANGED pureVars

DataRejected ==
    /\ frame.at = "data"
    /\ componentElements[frame.i].dataUrl
    /\ frame' = NextElement(frame)
    /\ log' = Append(log, Event("rejected", frame.i, <<>>, Undefined))
    /\ UNCHANGED <<componentElements, registeredComponents, componentTemplates>>
    /\ UNCHANGED pureVars

\* the loop has gone through every element
FinishComponents ==
    /\ frame.at = "element"
    /\ frame.i > Len(componentElements)
    /\ frame' = [frame EXCEPT !.at = "done"]
    /\ UNCHANGED <<componentElements, registeredComponents, componentTemplates, log>>
    /\ UNCHANGED pureVars

NextComponents ==
    \/ registerComponent \/ StartComponents \/ BeginElement
    \/ TemplateCached \/ TemplateFetched \/ TemplateRejected
    \/ DataReady \/ DataRejected \/ FinishComponents

SpecComponents == InitComponents /\ [][NextComponents]_vars

\* ------------------------------------------------------------------------
\* Reading the inputs back
GroupsPath == <<"groups">>
HasGroupsArray(d) == getNestedValue(d, GroupsPath).t = "array"
GroupsOf(d) == getNestedValue(d, GroupsPath).a
\* the text a string field contributes, nothing when the field is missing
FieldText(scope, key) ==
    IF scope.t = "object" /\ key \in DOMAIN scope.o /\ scope.o[key].t = "string"
    THEN scope.o[key].s
    ELSE <<>>
\* no string of the groups carries placeholder or markup text
PlainNames(d) ==
    \A k \in 1..Len(GroupsOf(d)) :
        FieldText(GroupsOf(d)[k], "name") \notin {TokenText, MarkupText}
\* what the text before the first element renders to at the root
PreText(d) == <<"x">> \o FieldText(d, "title")

\* ------------------------------------------------------------------------
\* C1: nested repeats.  For the template
\*   x{{title}}<div ts-repeat="groups">{{name}}{{title}}<span ts-repeat="items">{{name}}</span></div>
\* and data whose groups each carry their own items array, the output holds,
\* for each group in array order, the group's header followed by exactly
\* len(group.items) copies of the inner element, each made from that
\* group's own items.
C1_InnerCopies(group) ==
    LET items == group.o["items"].a
    IN Flatten([i \in 1..Len(items) |->
                   ElementHtml("span", <<>>, FieldText(items[i], "name"))])
C1_GroupCopy(group) ==
    ElementHtml("div", <<>>, FieldText(group, "name") \o C1_InnerCopies(group))
C1_Expected(d) ==
    PreText(d)
    \o Flatten([k \in 1..Len(GroupsOf(d)) |-> C1_GroupCopy(GroupsOf(d)[k])])
C1_NestedRepeats ==
    (/\ pc = "rendered"
     /\ template = NestedTemplate(PreHtml, RepeatAttr(GroupsPath), HeaderHtml,
                                  RepeatAttr(<<"items">>), <<>>)
     /\ HasGroupsArray(data)
     /\ PlainNames(data))
    => html = C1_Expected(data)

\* ------------------------------------------------------------------------
\* C2: scope isolation.  {{title}} inside the copies of the element repeated
\* over groups renders as the empty string although the root has a title:
\* the output is the one the same template gives with that placeholder
\* taken out of the element.
Contains(s, a) == \E i \in 1..Len(s) : s[i] = a
OuterPaths == {GroupsPath, <<"title">>, <<"items">>, <<>>}
C3_InvalidCollection ==
    \A rpath \in OuterPaths, r2 \in InnerRepeatChoices, tail \in TailChoices :
        (/\ pc = "rendered"
         /\ template = NestedTemplate(PreHtml, RepeatAttr(rpath), HeaderHtml, r2, tail)
         /\ getNestedValue(data, rpath).t # "array")
        => /\ html = processTemplate(PreHtml \o tail, data).html
           /\ warns = <<rpath>> \o processTemplate(PreHtml \o tail, data).warns
C3_Witness ==
    /\ pc = "rendered"
    /\ \E r2 \in InnerRepeatChoices, tail \in TailChoices :
          /\ tail # <<>>
          /\ template = NestedTemplate(PreHtml, RepeatAttr(<<"title">>),
                                       HeaderHtml, r2, tail)
    /\ FieldText(data, "title") = <<"Page">>
    /\ HasGroupsArray(data)
    /\ warns = <<<<"title">>>>
    /\ html = <<"x", "Page">> \o ElementHtml("span", <<>>, <<"G", "1">>)
              \o ElementHtml("span", <<>>, <<"G", "2">>)

\* ------------------------------------------------------------------------
\* C4: empty collection.  When the path of the first top-level directive
\* element resolves to an empty array, the element leaves nothing in the
\* output and logs nothing: output and log are those of the template
\* without the element.
C4_EmptyCollection ==
    \A rpath \in OuterPaths, r2 \in InnerRepeatChoices, tail \in TailChoices :
        (/\ pc = "rendered"
         /\ template = NestedTemplate(PreHtml, RepeatAttr(rpath), HeaderHtml, r2, tail)
         /\ getNestedValue(data, rpath).t = "array"
         /\ getNestedValue(data, rpath).a = <<>>)
        => /\ html = processTemplate(PreHtml \o tail, data).html
           /\ warns = processTemplate(PreHtml \o tail, data).warns
C4_Witness ==
    /\ pc = "rendered"
    /\ \E r2 \in InnerRepeatChoices :
          template = NestedTemplate(PreHtml, RepeatAttr(GroupsPath), HeaderHtml,
                                    r2, <<>>)
    /\ FieldText(data, "title") = <<"Page">>
    /\ HasGroupsArray(data)
    /\ GroupsOf(data) = <<>>
    /\ html = <<"x", "Page">>
    /\ warns = <<>>

\* ------------------------------------------------------------------------
\* C5: array expansion.  When the path of the first top-level directive
\* element resolves to an array of length n, the element is replaced, between
\* what precedes and what follows it, by n copies in array order; the i-th
\* copy is the element's markup without ts-repeat, rendered with the i-th
\* array element as data.
C5_Copy(inner, item) ==
    SerializeNodes(ParseHTML(
        processTemplate(StripRepeatAttrs(ElementHtml("div", <<>>, inner)),
                        item).html))
C5_Copies(inner, items) ==
    Flatten([i \in 1..Len(items) |-> C5_Copy(inner, items[i])])
C5_ArrayExpansion ==
    \A rpath \in OuterPaths, r2 \in InnerRepeatChoices, tail \in TailChoices :
        (/\ pc = "rendered"
         /\ template = NestedTemplate(PreHtml, RepeatAttr(rpath), HeaderHtml, r2, tail)
         /\ getNestedValue(data, rpath).t = "array")
        => html = processSimplePlaceholders(
                      PreHtml
                      \o C5_Copies(HeaderHtml
                                      \o ElementHtml("span", r2, Placeholder(<<"name">>)),
                                   getNestedValue(data, rpath).a)
                      \o SerializeNodes(processRepeats(ParseHTML(tail), data).nodes),
                      data)
C5_Witness ==
    /\ pc = "rendered"
    /\ template = NestedTemplate(PreHtml, RepeatAttr(GroupsPath), HeaderHtml,
                                 <<>>, <<>>)
    /\ HasGroupsArray(data)
    /\ Len(GroupsOf(data)) = 2
    /\ FieldText(data, "title") = <<>>
    /\ html = <<"x">>
              \o ElementHtml("div", <<>>, <<"G", "1">> \o ElementHtml("span", <<>>, <<"G", "1">>))
              \o ElementHtml("div", <<>>, <<"G", "2">> \o ElementHtml("span", <<>>, <<"G", "2">>))

\* ------------------------------------------------------------------------
\* C6: no directive left.  The string returned by one render, read as HTML,
\* holds no element with a ts-repeat attribute.
RECURSIVE HasRepeatElement(_)
HasRepeatElement(nodes) ==
    \E i \in 1..Len(nodes) :
        /\ IsElement(nodes[i])
        /\ (hasAttribute(nodes[i], RepeatName) \/ HasRepeatElement(nodes[i].kids))
C6_NoDirectiveLeft ==
    pc = "rendered" => ~HasRepeatElement(ParseHTML(html))

\* ------------------------------------------------------------------------
\* C7: inserted text is not scanned again.  For a template of text and
\* placeholders and a scope without $ in its strings, the render is the single left-to-right pass that puts the
\* value of every placeholder of the template in its place and copies
\* everything else, the inserted values included, verbatim.
\* no string of the scope holds a $, which String.prototype.replace reads as
\* the start of a replacement pattern
RECURSIVE LiteralScope(_)
LiteralScope(v) ==
    IF v.t = "string" THEN ~Contains(v.s, "$")
    ELSE IF v.t = "array" THEN \A i \in 1..Len(v.a) : LiteralScope(v.a[i])
    ELSE IF v.t = "object" THEN \A k \in DOMAIN v.o : LiteralScope(v.o[k])
    ELSE TRUE
C7_ValueText(v) == IF v.t # "undefined" THEN StringOf(v) ELSE <<>>
RECURSIVE C7_SinglePassFrom(_, _, _)
C7_SinglePassFrom(m, s, i) ==
    IF i > Len(m) THEN <<>>
    ELSE IF PlaceholderEnd(m, i) = 0 THEN <<m[i]>> \o C7_SinglePassFrom(m, s, i + 1)
    ELSE C7_ValueText(getNestedValue(s, PlaceholderKey(SubSeq(m, i, PlaceholderEnd(m, i)))))
         \o C7_SinglePassFrom(m, s, PlaceholderEnd(m, i) + 1)
C7_NoRescan ==
    (pc = "rendered" /\ template \in Markups /\ LiteralScope(data))
    => html = C7_SinglePassFrom(template, data, 1)

\* ------------------------------------------------------------------------
\* C8: absent paths give the empty string.  With a scope without $ in its
\* strings, the result of processSimplePlaceholders is the one it gives for the markup from which
\* the placeholders whose path is absent in the scope have been deleted.
RECURSIVE C8_WithoutAbsent(_, _, _)
C8_WithoutAbsent(m, s, i) ==
    IF i > Len(m) THEN <<>>
    ELSE IF PlaceholderEnd(m, i) = 0 THEN <<m[i]>> \o C8_WithoutAbsent(m, s, i + 1)
    ELSE (IF getNestedValue(s, PlaceholderKey(SubSeq(m, i, PlaceholderEnd(m, i)))).t
                = "undefined"
          THEN <<>>
          ELSE SubSeq(m, i, PlaceholderEnd(m, i)))
         \o C8_WithoutAbsent(m, s, PlaceholderEnd(m, i) + 1)
C8_AbsentIsEmpty ==
    (pc = "substituted" /\ LiteralScope(data))
    => html = processSimplePlaceholders(C8_WithoutAbsent(template, data, 1), data)

\* ------------------------------------------------------------------------
\* C9: idempotence of substitution.  With a scope whose string values hold
\* neither {{ nor }}, substituting the result of a substitution again
\* changes nothing.
C9_HasDoubleBrace(s) ==
    \E i \in 1..(Len(s) - 1) :
        (s[i] = LB /\ s[i + 1] = LB) \/ (s[i] = RB /\ s[i + 1] = RB)
RECURSIVE C9_CleanScope(_)
C9_CleanScope(v) ==
    IF v.t = "string" THEN ~C9_HasDoubleBrace(v.s)
    ELSE IF v.t = "array" THEN \A i \in 1..Len(v.a) : C9_CleanScope(v.a[i])
    ELSE IF v.t = "object" THEN \A k \in DOMAIN v.o : C9_CleanScope(v.o[k])
    ELSE TRUE
C9_Idempotent ==
    (pc = "resubstituted" /\ C9_CleanScope(data)) => html = prev

\* ------------------------------------------------------------------------
\* C10: round trip.  As stated: a template without ts-repeat element and
\* without placeholder is returned unchanged.
C10_Plain(t) ==
    /\ ~HasRepeatElement(ParseHTML(t))
    /\ MatchPlaceholders(t) = <<>>
    /\ MatchPlaceholders(SerializeNodes(ParseHTML(t))) = <<>>
C10_RoundTrip ==
    (pc = "rendered" /\ C10_Plain(template)) => html = template
\* C10, as the code has it: a template without ts-repeat element and without
\* placeholder is returned as the HTML parser reads it and writes it back
\* (special characters of text escaped, unclosed elements closed, stray end
\* tags dropped), which is the template itself only when the template
\* already has that form.
C10_Reserialized ==
    (pc = "rendered" /\ C10_Plain(template))
    => /\ html = SerializeNodes(ParseHTML(template))
       /\ warns = <<>>
C10_Witness ==
    /\ pc = "rendered"
    /\ template = <<"<div", GT, "&">>
    /\ html = <<"<div", GT, "&amp;", "</div>">>
    /\ warns = <<>>

\* ------------------------------------------------------------------------
\* C11: getNestedValue walks the segments left to right and gives undefined
\* as soon as the current value is not an object-shaped mapping (null, a
\* scalar, an array) or lacks the segment as a key of its own; otherwise it
\* gives the value reached after the last segment.
RECURSIVE C11_Walk(_, _)
C11_Walk(current, parts) ==
    IF parts = <<>> THEN current
    ELSE IF current.t # "object" THEN Undefined
    ELSE IF Len(Head(parts)) # 1 \/ Head(parts)[1] \notin DOMAIN current.o
    THEN Undefined
    ELSE C11_Walk(current.o[Head(parts)[1]], Tail(parts))
C11_ShortCircuit ==
    pc = "looked up" => value = C11_Walk(data, Split(path, DOT))

\* ------------------------------------------------------------------------
\* C12: every non-empty path resolves to undefined against the empty object.
C12_EmptyObject ==
    (pc = "looked up" /\ data = EmptyObj /\ path # <<>>) => value.t = "undefined"

\* ------------------------------------------------------------------------
\* C13: a placeholder whose path resolves to an array or an object is
\* replaced by the empty string.
C13_NonScalarIsMissing ==
    \A key \in {<<"a">>, <<WS, "a", WS>>} :
        (/\ pc = "substituted"
         /\ template = Placeholder(key)
         /\ getNestedValue(data, <<"a">>).t \in {"array", "object"})
        => html = <<>>

\* ------------------------------------------------------------------------
\* C14: template cache.  Once the template of a component name has been
\* fetched and written to componentTemplates, there is no further fetch and
\* no further write for that name.
C14_CacheOnce ==
    \A k \in 1..Len(log), l \in 1..Len(log) :
        (/\ k < l
         /\ log[k].e = "write"
         /\ log[l].e \in {"fetch", "write"})
        => componentElements[log[k].i].name # componentElements[log[l].i].name

\* ------------------------------------------------------------------------
\* C15: failure isolation.  An element that names an unregistered component,
\* or whose template fetch or data fetch is rejected, is not rendered and
\* keeps its content; the loop goes on, and every other element it has gone
\* past has been rendered.
C15_Has(e, i) == \E k \in 1..Len(log) : log[k].e = e /\ log[k].i = i
C15_Failed(i) ==
    \/ componentElements[i].name \notin DOMAIN registeredComponents
    \/ C15_Has("rejected", i)
C15_Passed(i) ==
    \/ frame.at = "done"
    \/ frame.at \in {"element", "template", "data"} /\ i < frame.i
C15_FailureIsolation ==
    \A i \in 1..Len(componentElements) :
        C15_Passed(i)
        => IF C15_Failed(i)
           THEN ~C15_Has("render", i) /\ componentElements[i].content = OldContent
           ELSE C15_Has("render", i)

\* ------------------------------------------------------------------------
\* C16: processTemplate is pure.  The step that renders an element changes
\* neither the registry nor the cache nor any other element of the document;
\* the content it sets is processTemplate of the template and the data it
\* was given, and equals the content of every element rendered before with
\* the same template and the same data.
C16_Rendered(lg, i) == \E k \in 1..Len(lg) : lg[k].e = "render" /\ lg[k].i = i
C16_SameData(a, b) ==
    /\ a.t = b.t
    /\ a.t = "object" => /\ DOMAIN a.o = DOMAIN b.o
                         /\ \A k \in DOMAIN a.o : a.o[k] = b.o[k]
C16_RenderStep(i) ==
    /\ registeredComponents' = registeredComponents
    /\ componentTemplates' = componentTemplates
    /\ Len(componentElements') = Len(componentElements)
    /\ \A j \in 1..Len(componentElements) :
          j # i => componentElements'[j] = componentElements[j]
    /\ componentElements'[i].content
          = processTemplate(log'[Len(log')].t, log'[Len(log')].d).html
    /\ \A k \in 1..Len(log) :
          (/\ log[k].e = "render"
           /\ log[k].t = log'[Len(log')].t
           /\ C16_SameData(log[k].d, log'[Len(log')].d))
          => componentElements'[log[k].i].content = componentElements'[i].content
C17_TopLevelDivs(nodes) ==
    Cardinality({i \in 1..Len(nodes) : nodes[i].tag = "div"})
C17_EmptyAttributeIsInert ==
    \A r2 \in InnerRepeatChoices, tail \in TailChoices :
        (/\ pc = "rendered"
         /\ template = NestedTemplate(PreHtml, RepeatAttr(<<>>), HeaderHtml, r2, tail))
        => C17_TopLevelDivs(ParseHTML(html)) = 1

\* ------------------------------------------------------------------------
\* C18: the markup from which the per-item copies of a directive element are
\* built is the element's subtree without the element's own ts-repeat
\* attribute, everything else (other attributes, text, descendants with
\* their attributes) being as in the original.
C18_NotRepeat(a) == a.n # RepeatName
C18_OwnStripped(el) == [el EXCEPT !.attrs = SelectSeq(el.attrs, C18_NotRepeat)]
C18_IsExpanded(n, d) ==
    /\ IsElement(n)
    /\ hasAttribute(n, RepeatName)
    /\ getNestedValue(d, getAttribute(n, RepeatName)).t = "array"
    /\ getNestedValue(d, getAttribute(n, RepeatName)).a # <<>>
C18_CopyKeepsSubtree ==
    pc = "rendered"
    => \A i \in 1..Len(ParseHTML(template)) :
          C18_IsExpanded(ParseHTML(template)[i], data)
          => ParseHTML(StripRepeatAttrs(SerializeNode(ParseHTML(template)[i])))
                = <<C18_OwnStripped(ParseHTML(template)[i])>>

\* ------------------------------------------------------------------------
\* C20: the captured path is trimmed before it is resolved.  A token {{k}}
\* and a token {{ k }} are both replaced with the value the scope has at k;
\* and, the scope holding no $, substituting a markup gives what substituting
\* it gives once every placeholder {{ k }} in it has been rewritten as {{k}}.
RECURSIVE C20_Trimmed(_, _)
C20_Trimmed(m, i) ==
    IF i > Len(m) THEN <<>>
    ELSE IF PlaceholderEnd(m, i) = 0 THEN <<m[i]>> \o C20_Trimmed(m, i + 1)
    ELSE <<LB, LB>> \o Trim(SubSeq(m, i + 2, PlaceholderEnd(m, i) - 2)) \o <<RB, RB>>
         \o C20_Trimmed(m, PlaceholderEnd(m, i) + 1)
C20_TrimmedPath ==
    pc = "substituted"
    => /\ \A k \in {<<"a">>, <<"b">>} :
            \A key \in {k, <<WS>> \o k \o <<WS>>} :
                template = Placeholder(key)
                => html = ReplaceFirst(template, template,
                                       C7_ValueText(getNestedValue(data, k)))
       /\ LiteralScope(data)
          => html = processSimplePlaceholders(C20_Trimmed(template, 1), data)
C20_Witness ==
    /\ pc = "substituted"
    /\ template = Placeholder(<<WS, "a", WS>>) \o Placeholder(<<"a">>)
    /\ data = Obj("a" :> Str(<<"A">>))
    /\ html = <<"A", "A">>

\* ------------------------------------------------------------------------
\* C19: substitution for a scope comes after all expansion for that scope.
\* Markup that a placeholder value brings in, at the root or in a per-item
\* copy, is therefore never expanded: with string values that are a
\* ts-repeat element, the render and its log are those obtained with an
\* inert text in place of these values, the text then being replaced by the
\* element.
INERT == "M"
RECURSIVE C19_Inert(_)
C19_Inert(v) ==
    IF v.t = "string" THEN (IF v.s = MarkupText THEN Str(<<INERT>>) ELSE v)
    ELSE IF v.t = "array" THEN Arr([i \in 1..Len(v.a) |-> C19_Inert(v.a[i])])
    ELSE IF v.t = "object" THEN Obj([k \in DOMAIN v.o |-> C19_Inert(v.o[k])])
    ELSE v
C19_Restore(h) ==
    Flatten([i \in 1..Len(h) |-> IF h[i] = INERT THEN MarkupText ELSE <<h[i]>>])
C19_ExpandThenSubstitute ==
    pc = "rendered"
    => /\ html = C19_Restore(processTemplate(template, C19_Inert(data)).html)
       /\ warns = processTemplate(template, C19_Inert(data)).warns
C19_Witness ==
    /\ pc = "rendered"
    /\ template = NestedTemplate(PreHtml, RepeatAttr(GroupsPath), HeaderHtml,
                                 RepeatAttr(<<"items">>), <<>>)
    /\ HasGroupsArray(data)
    /\ Len(GroupsOf(data)) = 1
    /\ FieldText(GroupsOf(data)[1], "name") = MarkupText
    /\ FieldText(data, "title") = <<>>
    /\ warns = <<>>
    /\ html = <<"x">> \o ElementHtml("div", <<>>,
                                    MarkupText \o ElementHtml("span", <<>>, MarkupText))

\* ------------------------------------------------------------------------
\* The other implementations of the repository: src/test.js,
\* src/unnamed/part_000, the first implementation of src/unnamed/part_001
\* and src/unnamed/part_003.

\* atoms that are one character of the string; every other atom is a run
\* of several characters
Chars == {QUOTE, WS, LB, RB, DOT, EQ, GT, APOS, BACKTICK, "$", "&", "<", ",",
          "x", "a", "b", "o", "u", "A", "B", "G", "I", "S", "V"}
         \cup {DigitAtoms[d] : d \in 1..10}

\* new RegExp(placeholder.replace(/[{}]/g, '\\$&'), 'g'): only the braces
\* are escaped, so in the pattern "." stands for any one character and "$"
\* for the end of the input (the pattern always goes on with the closing
\* braces, so a pattern holding "$" matches nowhere).
\* Also new RegExp(placeholder.replace(/[.*+?^${}()|[\]\\]/g, '\\$&'), 'g')
\* of part_001, every character escaped: the pattern is the text itself.
RegexOccursAt(s, p, i, escaped) ==
    IF escaped THEN OccursAt(s, p, i)
    ELSE /\ i >= 1
         /\ i + Len(p) - 1 <= Len(s)
         /\ \A k \in 1..Len(p) :
               /\ p[k] # "$"
               /\ IF p[k] = DOT
                  THEN s[i + k - 1] \in Chars
                  ELSE s[i + k - 1] = p[k]

\* html.replace(regexp, repl) with the g flag: every match, left to right,
\* the replacement text expanded as String.prototype.replace does
RECURSIVE RegexReplaceFrom(_, _, _, _, _)
RegexReplaceFrom(s, i, p, repl, escaped) ==
    IF i > Len(s) THEN <<>>
    ELSE IF RegexOccursAt(s, p, i, escaped)
    THEN GetSubstitution(SubSeq(s, i, i + Len(p) - 1), SubSeq(s, 1, i - 1),
                         From(s, i + Len(p)), repl)
         \o RegexReplaceFrom(s, i + Len(p), p, repl, escaped)
    ELSE <<s[i]>> \o RegexReplaceFrom(s, i + 1, p, repl, escaped)
RegexReplaceAll(s, p, repl, escaped) == RegexReplaceFrom(s, 1, p, repl, escaped)

\* ------------------------------------------------------------------------
\* src/test.js: processTemplate with its inner function processRepeats

\* lines 29-35 and 68-74, one placeholder: the markup of the container is
\* read, replaced and written back when the path resolves
TestSubstituteOne(nodes, placeholder, scope) ==
    IF getNestedValue(scope, PlaceholderKey(placeholder)).t = "undefined"
    THEN nodes
    ELSE ParseHTML(RegexReplaceAll(
                       SerializeNodes(nodes), placeholder,
                       StringOf(getNestedValue(scope, PlaceholderKey(placeholder))),
                       FALSE))

RECURSIVE TestSubstituteEach(_, _, _)
TestSubstituteEach(nodes, placeholders, scope) ==
    IF placeholders = <<>> THEN nodes
    ELSE TestSubstituteEach(TestSubstituteOne(nodes, Head(placeholders), scope),
                            Tail(placeholders), scope)

\* the placeholders the container's innerHTML holds, each replaced in turn
TestPlaceholders(nodes, scope) ==
    TestSubstituteEach(nodes, MatchPlaceholders(SerializeNodes(nodes)), scope)

\* getNestedValue(contextData, repeatKey) || []
RepeatData(v) == IF Truthy(v) THEN v ELSE Arr(<<>>)

\* element.removeAttribute(name)
removeAttribute(el, name) ==
    [el EXCEPT !.attrs = SelectSeq(@, LAMBDA a : a.n # name)]

\* itemDiv.firstElementChild: a sequence holding the element, or nothing
firstElementChild(nodes) == SubSeq(SelectSeq(nodes, IsElement), 1, 1)

RECURSIVE TestRepeats(_, _)

\* lines 64-77 for the copy in hand: the attribute goes, the placeholders
\* of the copy's innerHTML are replaced, the nested repeats are processed
TestFillCopy(copy, itemData) ==
    [copy EXCEPT !.kids = TestRepeats(TestPlaceholders(copy.kids, itemData),
                                      itemData)]

\* lines 59-80, one item: what is appended to the fragment
TestCopy(originalTemplate, itemData) ==
    [k \in 1..Len(firstElementChild(ParseHTML(originalTemplate))) |->
        TestFillCopy(removeAttribute(firstElementChild(ParseHTML(originalTemplate))[k],
                                     RepeatName),
                     itemData)]

\* lines 46-85: what stands in the place of the element afterwards
TestExpand(repeatElement, repeatData) ==
    IF repeatData.t # "array" THEN <<>>
    ELSE Flatten([i \in 1..Len(repeatData.a) |->
                     TestCopy(SerializeNode(repeatElement), repeatData.a[i])])

\* querySelectorAll('[ts-repeat]') and forEach: the first element with the
\* attribute on every path from the context element is replaced; the ones
\* below it leave the tree with it, so what the loop does to them later
\* is not seen
TestNode(n, contextData) ==
    IF ~IsElement(n) THEN <<n>>
    ELSE IF hasAttribute(n, RepeatName)
    THEN TestExpand(n, RepeatData(getNestedValue(contextData,
                                                 getAttribute(n, RepeatName))))
    ELSE <<[n EXCEPT !.kids = TestRepeats(n.kids, contextData)]>>

TestRepeats(nodes, contextData) ==
    Flatten([i \in 1..Len(nodes) |-> TestNode(nodes[i], contextData)])

\* lines 94-101: element.src = srcValue sets no attribute on a div or a
\* span (they have no src property that reflects one); the ts-src
\* attribute is removed when its value is not empty
SRC == "ts-src"
RECURSIVE MoveSrc(_)
MoveSrcOf(n) ==
    IF ~IsElement(n) THEN n
    ELSE IF hasAttribute(n, <<SRC>>) /\ getAttribute(n, <<SRC>>) # <<>>
    THEN [removeAttribute(n, <<SRC>>) EXCEPT !.kids = MoveSrc(n.kids)]
    ELSE [n EXCEPT !.kids = MoveSrc(n.kids)]
MoveSrc(nodes) == [i \in 1..Len(nodes) |-> MoveSrcOf(nodes[i])]

\* src/test.js processTemplate(template, data)
processTemplateTest(tpl, scope) ==
    SerializeNodes(MoveSrc(TestRepeats(TestPlaceholders(ParseHTML(tpl), scope),
                                       scope)))

\* src/unnamed/part_000 lines 26-31, one placeholder: the same regular
\* expression on the template string, an unresolved path gives ''
Part0SubstituteOne(markup, placeholder, scope) ==
    RegexReplaceAll(markup, placeholder,
                    IF getNestedValue(scope, PlaceholderKey(placeholder)).t # "undefined"
                    THEN StringOf(getNestedValue(scope, PlaceholderKey(placeholder)))
                    ELSE <<>>,
                    FALSE)

\* ------------------------------------------------------------------------
\* src/unnamed/part_003: processRepeats, deepest element first

\* getElementDepth counts from 1 for a child of the container.  Every
\* element of the list is in the tree when its turn comes (only elements
\* below it have been handled by then), and an element is handled after
\* all the elements below it.  So the tree is rebuilt bottom-up, and the
\* warnings, each tagged with the depth of the element that logged it, are
\* put in the order of the sorted list afterwards.
RECURSIVE processRepeats3(_, _)
RECURSIVE DeepestFirst(_, _, _)

Tagged(ws, depth) == [i \in 1..Len(ws) |-> [d |-> depth, w |-> ws[i]]]

\* lines 71-84, one item
ItemHtml3(itemTemplate, item) ==
    FinishItem(processRepeats3(ParseHTML(itemTemplate), item), item)

\* lines 58-87 for the collection the path resolved to
ExpandCollection3(element, arrayPath, collection) ==
    IF collection.t # "array"
    THEN [nodes |-> <<>>, warns |-> <<arrayPath>>]
    ELSE JoinItems([i \in 1..Len(collection.a) |->
                       ItemHtml3(StripRepeatAttrs(SerializeNode(element)),
                                 collection.a[i])])

\* the element with its subtree as the deeper turns left it
TagResult(r, depth) == [nodes |-> r.nodes, warns |-> Tagged(r.warns, depth)]
ExpandElement3(element, depth, scope) ==
    TagResult(ExpandCollection3(element, getAttribute(element, RepeatName),
                                getNestedValue(scope, getAttribute(element, RepeatName))),
              depth)

\* r: the children of n after the turns of the elements below n
AfterWarns(ws, r) == [nodes |-> r.nodes, warns |-> ws \o r.warns]
DeepestFinish(n, r, depth, scope) ==
    IF hasAttribute(n, RepeatName)
    THEN AfterWarns(r.warns,
                    ExpandElement3([n EXCEPT !.kids = r.nodes], depth, scope))
    ELSE [nodes |-> <<[n EXCEPT !.kids = r.nodes]>>, warns |-> r.warns]

DeepestNode(n, depth, scope) ==
    IF ~IsElement(n) THEN [nodes |-> <<n>>, warns |-> <<>>]
    ELSE DeepestFinish(n, DeepestFirst(n.kids, depth + 1, scope), depth, scope)

DeepestFirst(nodes, depth, scope) ==
    Collect([i \in 1..Len(nodes) |-> DeepestNode(nodes[i], depth, scope)])

\* .sort((a, b) => b.depth - a.depth), a stable sort, on the warnings
RECURSIVE ByDepth(_, _)
ByDepth(tagged, depth) ==
    IF depth = 0 THEN <<>>
    ELSE [i \in 1..Len(SelectSeq(tagged, LAMBDA e : e.d = depth)) |->
             SelectSeq(tagged, LAMBDA e : e.d = depth)[i].w]
         \o ByDepth(tagged, depth - 1)
RECURSIVE Height(_)
Height(nodes) ==
    IF \A i \in 1..Len(nodes) : ~IsElement(nodes[i]) THEN 0
    ELSE 1 + Height(Flatten([i \in 1..Len(nodes) |-> nodes[i].kids]))

SortedWarns(r, height) == [nodes |-> r.nodes, warns |-> ByDepth(r.warns, height)]

processRepeats3(nodes, scope) ==
    SortedWarns(DeepestFirst(nodes, 1, scope), Height(nodes))

\* src/unnamed/part_003 processTemplate(template, data)
processTemplate3(tpl, scope) ==
    FinishTemplate(processRepeats3(ParseHTML(tpl), scope), scope)

\* ------------------------------------------------------------------------
\* src/unnamed/part_001, first implementation: processSimplePlaceholders
\* with the fully escaped regular expression, processTemplate that fills
\* the placeholders first, processRepeats with its while loop

Part1SubstituteOne(markup, placeholder, scope) ==
    RegexReplaceAll(markup, placeholder,
                    IF getNestedValue(scope, PlaceholderKey(placeholder)).t # "undefined"
                    THEN StringOf(getNestedValue(scope, PlaceholderKey(placeholder)))
                    ELSE <<>>,
                    TRUE)

RECURSIVE Part1SubstituteEach(_, _, _)
Part1SubstituteEach(markup, placeholders, scope) ==
    IF placeholders = <<>> THEN markup
    ELSE Part1SubstituteEach(Part1SubstituteOne(markup, Head(placeholders), scope),
                             Tail(placeholders), scope)

processSimplePlaceholders1(markup, scope) ==
    Part1SubstituteEach(markup, MatchPlaceholders(markup), scope)

\* lines 63-88 for the first element of the list the loop does not skip
LoopExpand(element, arrayPath, collection) ==
    IF collection.t # "array"
    THEN [found |-> TRUE, nodes |-> <<>>, warns |-> <<arrayPath>>]
    ELSE [found |-> TRUE,
          nodes |-> ParseHTML(Flatten(
                        [i \in 1..Len(collection.a) |->
                            processSimplePlaceholders1(
                                StripRepeatAttrs(SerializeNode(element)),
                                collection.a[i])])),
          warns |-> <<>>]

\* one pass of the for loop over querySelectorAll('[ts-repeat]'): the first
\* element with the attribute, in document order, has no ancestor with it;
\* it is replaced and the loop breaks
RECURSIVE LoopPass(_, _, _)
LoopBelow(nodes, i, r, scope) ==
    IF r.found
    THEN [found |-> TRUE, nodes |-> [nodes EXCEPT ![i].kids = r.nodes],
          warns |-> r.warns]
    ELSE LoopPass(nodes, i + 1, scope)
LoopSplice(nodes, i, r) ==
    [found |-> TRUE,
     nodes |-> SubSeq(nodes, 1, i - 1) \o r.nodes \o From(nodes, i + 1),
     warns |-> r.warns]
LoopPass(nodes, i, scope) ==
    IF i > Len(nodes) THEN [found |-> FALSE, nodes |-> nodes, warns |-> <<>>]
    ELSE IF ~IsElement(nodes[i]) THEN LoopPass(nodes, i + 1, scope)
    ELSE IF hasAttribute(nodes[i], RepeatName)
    THEN LoopSplice(nodes, i,
                    LoopExpand(nodes[i], getAttribute(nodes[i], RepeatName),
                               getNestedValue(scope,
                                              getAttribute(nodes[i], RepeatName))))
    ELSE LoopBelow(nodes, i, LoopPass(nodes[i].kids, 1, scope), scope)

\* container.querySelectorAll('[ts-repeat]').length
RECURSIVE CountRepeats(_)
CountRepeatsOf(n) ==
    IF ~IsElement(n) THEN 0
    ELSE (IF hasAttribute(n, RepeatName) THEN 1 ELSE 0) + CountRepeats(n.kids)
CountRepeats(nodes) ==
    IF nodes = <<>> THEN 0
    ELSE CountRepeatsOf(Head(nodes)) + CountRepeats(Tail(nodes))

\* ------------------------------------------------------------------------
\* src/unnamed/part_002 processRepeats, counted: the calls of processRepeats
\* made from inside processRepeats (line 79 of the source, one per item), and
\* how deep they nest
RECURSIVE RecursiveCalls(_, _)
RECURSIVE CallsPerItem(_, _)
CallsPerItem(itemTemplate, items) ==
    IF items = <<>> THEN 0
    ELSE 1 + RecursiveCalls(ParseHTML(itemTemplate), Head(items))
           + CallsPerItem(itemTemplate, Tail(items))
CallsOfCollection(element, collection) ==
    IF collection.t # "array" THEN 0
    ELSE CallsPerItem(StripRepeatAttrs(SerializeNode(element)), collection.a)
CallsOfNode(n, scope) ==
    IF ~IsElement(n) THEN 0
    ELSE IF hasAttribute(n, RepeatName)
    THEN CallsOfCollection(n, getNestedValue(scope, getAttribute(n, RepeatName)))
    ELSE RecursiveCalls(n.kids, scope)
RecursiveCalls(nodes, scope) ==
    IF nodes = <<>> THEN 0
    ELSE CallsOfNode(Head(nodes), scope) + RecursiveCalls(Tail(nodes), scope)

Max2(a, b) == IF a >= b THEN a ELSE b
RECURSIVE RecursionDepth(_, _)
RECURSIVE DepthPerItem(_, _)
DepthPerItem(itemTemplate, items) ==
    IF items = <<>> THEN 0
    ELSE Max2(1 + RecursionDepth(ParseHTML(itemTemplate), Head(items)),
              DepthPerItem(itemTemplate, Tail(items)))
DepthOfCollection(element, collection) ==
    IF collection.t # "array" THEN 0
    ELSE DepthPerItem(StripRepeatAttrs(SerializeNode(element)), collection.a)
DepthOfNode(n, scope) ==
    IF ~IsElement(n) THEN 0
    ELSE IF hasAttribute(n, RepeatName)
    THEN DepthOfCollection(n, getNestedValue(scope, getAttribute(n, RepeatName)))
    ELSE RecursionDepth(n.kids, scope)
RecursionDepth(nodes, scope) ==
    IF nodes = <<>> THEN 0
    ELSE Max2(DepthOfNode(Head(nodes), scope), RecursionDepth(Tail(nodes), scope))

\* ------------------------------------------------------------------------
\* Inputs of the other implementations
MaxContainer == 30

\* <div ts-repeat="items">{{key}}</div>
ItemsTemplate(key) ==
    ElementHtml("div", RepeatAttr(<<"items">>), Placeholder(key))
\* <div ts-repeat="groups">{{name}}<span ts-repeat="items">{{name}}</span></div>
GroupsTemplate ==
    ElementHtml("div", RepeatAttr(<<"groups">>),
                Placeholder(<<"name">>)
                \o ElementHtml("span", RepeatAttr(<<"items">>), Placeholder(<<"name">>)))
\* <div ts-repeat="items" href="{{name}}">x</div>
LinkTemplate ==
    ElementHtml("div",
                RepeatAttr(<<"items">>)
                \o <<WS, "href", EQ, QUOTE>> \o Placeholder(<<"name">>) \o <<QUOTE>>,
                <<"x">>)
\* {{a.b}}{{axb}}
DottedTemplate == Placeholder(<<"a", DOT, "b">>) \o Placeholder(<<"a", "x", "b">>)
\* <span ts-src="u">{{name}}</span>
SrcTemplate ==
    ElementHtml("span", <<WS, SRC, EQ, QUOTE, "u", QUOTE>>, Placeholder(<<"name">>))
VariantTemplates ==
    {ItemsTemplate(<<"name">>), ItemsTemplate(<<"t">>), GroupsTemplate, LinkTemplate,
     DottedTemplate, SrcTemplate, <<"x">> \o Placeholder(<<"name">>)}

\* a root object: groups of one size, optionally a name and items of its own
Field(present, key, v) == IF present THEN key :> v ELSE <<>>
VariantRoot(groups, count, groupNames, rootName, rootItems) ==
    Obj(Field(rootName, "name", Str(<<"R">>))
        @@ Field(rootItems, "items",
                 Arr([i \in 1..count |-> ItemValue("object", 0, i)]))
        @@ ("groups" :> Arr([k \in 1..groups |->
                               GroupValue(groupNames, "object", k, count)])))
VariantRoots ==
    {VariantRoot(g, c, n, rn, ri) :
        g \in 0..MaxGroups, c \in 0..MaxItems, n \in {"plain", "none"},
        rn \in BOOLEAN, ri \in BOOLEAN}
\* item values that carry markup: a directive element with a placeholder
\* inside, a directive element alone
MarkupValues == {ItemsTemplate(<<"name">>), MarkupText}
MarkupRoots ==
    {Obj(("t" :> Str(t))
         @@ ("items" :> Arr([i \in 1..count |-> Obj("name" :> Str(m))]))) :
        t \in {<<"T">>, Placeholder(<<"name">>)}, m \in MarkupValues,
        count \in 1..MaxItems}
VariantData ==
    VariantRoots \cup MarkupRoots
    \cup {Obj("a" :> Obj("b" :> Str(<<"V">>))), EmptyObj}

\* ------------------------------------------------------------------------
\* The implementations side by side, on one template and one data value
InitVariants ==
    /\ template \in VariantTemplates
    /\ data \in VariantData
    /\ pc = "ready"
    /\ html = <<>>
    /\ warns = <<>>
    /\ prev = <<>>
    /\ path = <<>>
    /\ value = Undefined
    /\ NoComponents
    /\ NoOthers

\* src/test.js processTemplate(template, data)
RenderTest ==
    /\ pc = "ready"
    /\ html' = processTemplateTest(template, data)
    /\ pc' = "rendered test"
    /\ UNCHANGED <<template, data, warns, prev, path, value>>
    /\ UNCHANGED <<registryVars, otherVars>>

\* src/unnamed/part_003 processTemplate(template, data)
RenderDeepest ==
    /\ pc = "ready"
    /\ \E r \in {processTemplate3(template, data)} :
          /\ html' = r.html
          /\ warns' = r.warns
    /\ pc' = "rendered deepest"
    /\ UNCHANGED <<template, data, prev, path, value>>
    /\ UNCHANGED <<registryVars, otherVars>>

\* src/test.js lines 25-34: the body of placeholders.forEach for one
\* placeholder of the freshly parsed template
ReplaceToken ==
    /\ pc = "ready"
    /\ \E k \in 1..Len(MatchPlaceholders(SerializeNodes(ParseHTML(template)))) :
          /\ path' = MatchPlaceholders(SerializeNodes(ParseHTML(template)))[k]
          /\ prev' = SerializeNodes(ParseHTML(template))
          /\ html' = SerializeNodes(
                         TestSubstituteOne(
                             ParseHTML(template),
                             MatchPlaceholders(SerializeNodes(ParseHTML(template)))[k],
                             data))
    /\ pc' = "token replaced"
    /\ UNCHANGED <<template, data, warns, value>>
    /\ UNCHANGED <<registryVars, otherVars>>

\* src/unnamed/part_000 lines 26-31: the same for one placeholder of the
\* template string
ReplaceToken0 ==
    /\ pc = "ready"
    /\ \E k \in 1..Len(MatchPlaceholders(template)) :
          /\ path' = MatchPlaceholders(template)[k]
          /\ prev' = template
          /\ html' = Part0SubstituteOne(template, MatchPlaceholders(template)[k], data)
    /\ pc' = "token replaced"
    /\ UNCHANGED <<template, data, warns, value>>
    /\ UNCHANGED <<registryVars, otherVars>>

\* src/unnamed/part_001 processTemplate up to the entry of the while loop
StartLoop ==
    /\ pc = "ready"
    /\ container' = ParseHTML(processSimplePlaceholders1(template, data))
    /\ changed' = TRUE
    /\ pc' = "loop"
    /\ UNCHANGED <<template, data, html, warns, prev, path, value>>
    /\ UNCHANGED <<registryVars, includeElements, fetchPromises>>

\* one iteration of while (changed); when the list is empty the loop ends
\* and processTemplate returns tempDiv.innerHTML.  Containers beyond
\* MaxContainer atoms are not followed further.
LoopIteration ==
    /\ pc = "loop"
    /\ changed
    /\ Len(SerializeNodes(container)) <= MaxContainer
    /\ \E r \in {LoopPass(container, 1, data)} :
          IF r.found
          THEN /\ container' = r.nodes
               /\ warns' = warns \o r.warns
               /\ changed' = TRUE
               /\ UNCHANGED <<pc, html>>
          ELSE /\ changed' = FALSE
               /\ html' = SerializeNodes(container)
               /\ pc' = "rendered loop"
               /\ UNCHANGED <<container, warns>>
    /\ UNCHANGED <<template, data, prev, path, value>>
    /\ UNCHANGED <<registryVars, includeElements, fetchPromises>>

NextVariants ==
    \/ Render \/ RenderTest \/ RenderDeepest
    \/ ReplaceToken \/ ReplaceToken0
    \/ StartLoop \/ LoopIteration

SpecVariants == InitVariants /\ [][NextVariants]_vars

\* ------------------------------------------------------------------------
\* C21: scope isolation in src/test.js.  For
\*   <div ts-repeat="items">{{name}}</div>
\* every copy holds the name of its own item, and for
\*   <div ts-repeat="groups">{{name}}<span ts-repeat="items">{{name}}</span></div>
\* every outer copy holds the name of its group and every inner copy the
\* name of its own item: never the root's name, and in an inner copy never
\* the group's name (root, groups and items all carry a name).
C21_OwnItems(d) ==
    IF "items" \in DOMAIN d.o
    THEN Flatten([i \in 1..Len(d.o["items"].a) |->
                     ElementHtml("div", <<>>, FieldText(d.o["items"].a[i], "name"))])
    ELSE <<>>
C21_AllNamed(d) ==
    /\ d \in VariantRoots
    /\ \A k \in 1..Len(GroupsOf(d)) : "name" \in DOMAIN GroupsOf(d)[k].o
C21_NearestScope ==
    /\ (pc = "rendered test" /\ template = ItemsTemplate(<<"name">>)
        /\ data \in VariantRoots)
       => html = C21_OwnItems(data)
    /\ (pc = "rendered test" /\ template = GroupsTemplate /\ C21_AllNamed(data))
       => html = Flatten([k \in 1..Len(GroupsOf(data)) |->
                             C1_GroupCopy(GroupsOf(data)[k])])

\* ------------------------------------------------------------------------
\* C22: absent paths in src/test.js.  A placeholder of the template whose
\* key no object of the data carries (so its path is absent in whatever
\* scope it is resolved) does not occur in the returned markup.
RECURSIVE C22_Carries(_, _)
C22_Carries(v, key) ==
    IF v.t = "object"
    THEN key \in DOMAIN v.o \/ \E f \in DOMAIN v.o : C22_Carries(v.o[f], key)
    ELSE IF v.t = "array"
    THEN \E i \in 1..Len(v.a) : C22_Carries(v.a[i], key)
    ELSE FALSE
C22_AbsentIsEmpty ==
    pc = "rendered test"
    => \A k \in 1..Len(MatchPlaceholders(template)) :
          (/\ Len(PlaceholderKey(MatchPlaceholders(template)[k])) = 1
           /\ ~C22_Carries(data, PlaceholderKey(MatchPlaceholders(template)[k])[1]))
          => IndexOf(html, MatchPlaceholders(template)[k]) = 0

\* ------------------------------------------------------------------------
\* C23: placeholder in an attribute of the repeated element, src/test.js.
\* For <div ts-repeat="items" href="{{name}}">x</div> and a root that has
\* items but no name of its own, the output holds one copy per item with
\* the item's name as href.
C23_Copy(item) ==
    ElementHtml("div",
                <<WS, "href", EQ, QUOTE>> \o FieldText(item, "name") \o <<QUOTE>>,
                <<"x">>)
C23_OwnAttribute ==
    (/\ pc = "rendered test"
     /\ template = LinkTemplate
     /\ data \in VariantRoots
     /\ "items" \in DOMAIN data.o
     /\ "name" \notin DOMAIN data.o)
    => html = Flatten([i \in 1..Len(data.o["items"].a) |->
                          C23_Copy(data.o["items"].a[i])])

\* ------------------------------------------------------------------------
\* C25: token-exact substitution in src/test.js and src/unnamed/part_000.
\* The step for one placeholder leaves every occurrence of every other
\* placeholder of the markup where it was.
C25_Count(s, t) == Cardinality({i \in 1..Len(s) : OccursAt(s, t, i)})
C25_TokenExact ==
    pc = "token replaced"
    => \A k \in 1..Len(MatchPlaceholders(prev)) :
          MatchPlaceholders(prev)[k] # path
          => C25_Count(html, MatchPlaceholders(prev)[k])
             >= C25_Count(prev, MatchPlaceholders(prev)[k])

\* ------------------------------------------------------------------------
\* C24: nested repeats in src/unnamed/part_003.  For
\*   <div ts-repeat="groups">{{name}}<span ts-repeat="items">{{name}}</span></div>
\* and named groups that each carry their own items, every outer copy holds
\* one inner copy per item of its group, filled from that item.
C24_NestedDeepest ==
    (/\ pc = "rendered deepest"
     /\ template = GroupsTemplate
     /\ C21_AllNamed(data))
    => html = Flatten([k \in 1..Len(GroupsOf(data)) |->
                          ElementHtml("div", <<>>,
                                      FieldText(GroupsOf(data)[k], "name")
                                      \o C1_InnerCopies(GroupsOf(data)[k]))])

\* ------------------------------------------------------------------------
\* C26: the while loop of processRepeats in the first implementation of
\* src/unnamed/part_001.  Every iteration that sets changed leaves fewer
\* ts-repeat elements in the container than it found.
C26_LoopDecreases ==
    [][(pc = "loop" /\ pc' = "loop")
       => CountRepeats(container') < CountRepeats(container)]_vars

\* ------------------------------------------------------------------------
\* C27: termination and size of the recursion of processTemplate in
\* src/unnamed/part_002.

\* the longest chain of ts-repeat elements, each inside the one before
RECURSIVE C27_NestingDepth(_)
C27_NestingOf(n) ==
    IF ~IsElement(n) THEN 0
    ELSE (IF hasAttribute(n, RepeatName) THEN 1 ELSE 0) + C27_NestingDepth(n.kids)
C27_NestingDepth(nodes) ==
    IF nodes = <<>> THEN 0
    ELSE Max2(C27_NestingOf(Head(nodes)), C27_NestingDepth(Tail(nodes)))

\* the product of the collection lengths along the nesting chains: an
\* element without a nested repeat counts the length of its array, an
\* element with nested repeats counts, for each of its items, what the
\* nested elements count in that item
RECURSIVE C27_ChainProduct(_, _)
RECURSIVE C27_PerItem(_, _)
C27_PerItem(nodes, items) ==
    IF items = <<>> THEN 0
    ELSE C27_ChainProduct(nodes, Head(items)) + C27_PerItem(nodes, Tail(items))
C27_ChainOf(n, scope) ==
    IF ~IsElement(n) THEN 0
    ELSE IF ~hasAttribute(n, RepeatName) THEN C27_ChainProduct(n.kids, scope)
    ELSE IF getNestedValue(scope, getAttribute(n, RepeatName)).t # "array" THEN 0
    ELSE IF C27_NestingDepth(n.kids) = 0
    THEN Len(getNestedValue(scope, getAttribute(n, RepeatName)).a)
    ELSE C27_PerItem(n.kids, getNestedValue(scope, getAttribute(n, RepeatName)).a)
C27_ChainProduct(nodes, scope) ==
    IF nodes = <<>> THEN 0
    ELSE C27_ChainOf(Head(nodes), scope) + C27_ChainProduct(Tail(nodes), scope)

\* the sum of the lengths of the arrays that the ts-repeat elements without
\* a ts-repeat ancestor resolve to in the data of the call
RECURSIVE C27_TopLevelItems(_, _)
C27_TopLevelOf(n, scope) ==
    IF ~IsElement(n) THEN 0
    ELSE IF ~hasAttribute(n, RepeatName) THEN C27_TopLevelItems(n.kids, scope)
    ELSE IF getNestedValue(scope, getAttribute(n, RepeatName)).t # "array" THEN 0
    ELSE Len(getNestedValue(scope, getAttribute(n, RepeatName)).a)
C27_TopLevelItems(nodes, scope) ==
    IF nodes = <<>> THEN 0
    ELSE C27_TopLevelOf(Head(nodes), scope) + C27_TopLevelItems(Tail(nodes), scope)

MaxIncludes == 2
\* what a fetched file may hold
IncludedTexts == {<<>>, <<"x">>, <<"<div", GT, "x">>}
\* a [ts-include-html] element: the attribute's value and the children
IncludeElement(url) == [url |-> url, content |-> ParseHTML(OldContent)]
IncludeDocuments ==
    UNION {[1..n -> {IncludeElement(u) : u \in {<<>>, <<"u">>}}] : n \in 0..MaxIncludes}

\* the promise pushed for element el: fetch(url) is under way ("fetching"),
\* response.text() is ("reading"), or the chain has settled; with the
\* catch at its end the chain can only fulfil
FetchPromise(el) == [el |-> el, state |-> "fetching", html |-> <<>>, included |-> FALSE]

\* Promise.all with one promise settled in place of all of them
PromiseAny(promises) ==
    IF \E k \in 1..Len(promises) : promises[k].state = "rejected" THEN "rejected"
    ELSE IF promises = <<>> \/ \E k \in 1..Len(promises) : promises[k].state = "fulfilled"
    THEN "fulfilled"
    ELSE "pending"

\* Promise.all(fetchPromises)
PromiseAll(promises) ==
    IF \E k \in 1..Len(promises) : promises[k].state = "rejected" THEN "rejected"
    ELSE IF \A k \in 1..Len(promises) : promises[k].state = "fulfilled" THEN "fulfilled"
    ELSE "pending"

\* elements.forEach: the indices of the elements whose url is not empty
RECURSIVE WithUrl(_, _)
WithUrl(els, i) ==
    IF i > Len(els) THEN <<>>
    ELSE IF els[i].url # <<>> THEN <<i>> \o WithUrl(els, i + 1)
    ELSE WithUrl(els, i + 1)

InitInclude ==
    /\ template = <<>>
    /\ data = Undefined
    /\ pc = "include"
    /\ html = <<>>
    /\ warns = <<>>
    /\ prev = <<>>
    /\ path = <<>>
    /\ value = Undefined
    /\ NoComponents
    /\ container = <<>>
    /\ changed = FALSE
    /\ includeElements \in IncludeDocuments
    /\ fetchPromises = <<>>

\* the call, up to the await
includeHTML ==
    /\ pc = "include"
    /\ fetchPromises' = [k \in 1..Len(WithUrl(includeElements, 1)) |->
                            FetchPromise(WithUrl(includeElements, 1)[k])]
    /\ pc' = "awaiting"
    /\ UNCHANGED <<template, data, html, warns, prev, path, value>>
    /\ UNCHANGED <<registryVars, container, changed, includeElements>>

\* fetch(url) settles: a response that is ok, or a response that is not,
\* or a network error; the last two end in the catch handler
FetchSettles ==
    /\ pc \in {"awaiting", "resolved"}
    /\ \E k \in 1..Len(fetchPromises), ok \in BOOLEAN :
          /\ fetchPromises[k].state = "fetching"
          /\ IF ok
             THEN /\ fetchPromises' = [fetchPromises EXCEPT ![k].state = "reading"]
                  /\ UNCHANGED log
             ELSE /\ fetchPromises' = [fetchPromises EXCEPT ![k].state = "fulfilled"]
                  /\ log' = Append(log, Event("include error", fetchPromises[k].el,
                                              <<>>, Undefined))
    /\ UNCHANGED <<template, data, pc, html, warns, prev, path, value>>
    /\ UNCHANGED <<componentElements, registeredComponents, componentTemplates, frame>>
    /\ UNCHANGED <<container, changed, includeElements>>

\* response.text() gives the file: element.innerHTML = html
TextArrives ==
    /\ pc \in {"awaiting", "resolved"}
    /\ \E k \in 1..Len(fetchPromises), text \in IncludedTexts :
          /\ fetchPromises[k].state = "reading"
          /\ includeElements' =
                 [includeElements EXCEPT ![fetchPromises[k].el].content = ParseHTML(text)]
          /\ fetchPromises' = [fetchPromises EXCEPT ![k].state = "fulfilled",
                                                    ![k].html = text,
                                                    ![k].included = TRUE]
          /\ log' = Append(log, Event("included", fetchPromises[k].el, text, Undefined))
    /\ UNCHANGED <<template, data, pc, html, warns, prev, path, value>>
    /\ UNCHANGED <<componentElements, registeredComponents, componentTemplates, frame>>
    /\ UNCHANGED <<container, changed>>

\* response.text() rejects: the catch handler
TextFails ==
    /\ pc \in {"awaiting", "resolved"}
    /\ \E k \in 1..Len(fetchPromises) :
          /\ fetchPromises[k].state = "reading"
          /\ fetchPromises' = [fetchPromises EXCEPT ![k].state = "fulfilled"]
          /\ log' = Append(log, Event("include error", fetchPromises[k].el,
                                      <<>>, Undefined))
    /\ UNCHANGED <<template, data, pc, html, warns, prev, path, value>>
    /\ UNCHANGED <<componentElements, registeredComponents, componentTemplates, frame>>
    /\ UNCHANGED <<container, changed, includeElements>>

\* await Promise.all(fetchPromises): the promise includeHTML returned
\* settles as Promise.all does
IncludeSettles ==
    /\ pc = "awaiting"
    /\ PromiseAll(fetchPromises) # "pending"
    /\ pc' = IF PromiseAll(fetchPromises) = "fulfilled" THEN "resolved" ELSE "rejected"
    /\ UNCHANGED <<template, data, html, warns, prev, path, value>>
    /\ UNCHANGED <<registryVars, otherVars>>

NextInclude ==
    includeHTML \/ FetchSettles \/ TextArrives \/ TextFails \/ IncludeSettles

SpecInclude == InitInclude /\ [][NextInclude]_vars

\* ------------------------------------------------------------------------
\* C28: ts.includeHTML never rejects; when it resolves every fetch has
\* settled; at any time an element whose fetch gave its file holds the
\* parsed file, and every other element (no url, fetch failed, fetch still
\* under way) holds what it held before, in whatever order the fetches end.
C28_PromiseOf(i) ==
    {k \in 1..Len(fetchPromises) : fetchPromises[k].el = i}
C28_SettledAll ==
    /\ pc # "rejected"
    /\ pc = "resolved"
       => \A k \in 1..Len(fetchPromises) : fetchPromises[k].state = "fulfilled"
    /\ pc \in {"awaiting", "resolved"}
       => \A i \in 1..Len(includeElements) :
             /\ Cardinality(C28_PromiseOf(i))
                = (IF includeElements[i].url # <<>> THEN 1 ELSE 0)
             /\ \A k \in C28_PromiseOf(i) :
                   fetchPromises[k].included
                   => includeElements[i].content = ParseHTML(fetchPromises[k].html)
             /\ (\A k \in C28_PromiseOf(i) : ~fetchPromises[k].included)
                => includeElements[i].content = ParseHTML(OldContent)
\* two fetches, the second element's ended first and failed, the first
\* element's gave markup
C28_Witness ==
    /\ pc = "resolved"
    /\ Len(fetchPromises) = 2
    /\ Len(log) = 2
    /\ log[1] = Event("include error", 2, <<>>, Undefined)
    /\ log[2].e = "included" /\ log[2].i = 1
    /\ includeElements[1].content = ParseHTML(<<"<div", GT, "x">>)
    /\ includeElements[2].content = ParseHTML(OldContent)

\* ------------------------------------------------------------------------
\* ts.registerComponent (src/ts-library.js lines 223-229; the same code in
\* src/unnamed/part_002 lines 148-154), called with any name and any url

MaxCalls == 2
\* "" stands for a missing or empty argument
RegisteredNames == {"", "card", "list", "__proto__"}
RegisteredUrls == {<<>>, <<"u">>, <<"v">>}

\* obj[name] = v on a plain object {}: an own property, except for the
\* name __proto__, which is the accessor of Object.prototype; its setter
\* ignores a value that is not an object
SetEntry(obj, name, v) == IF name = "__proto__" THEN obj ELSE (name :> v) @@ obj
\* obj[name] on a plain object {}; __proto__ reads Object.prototype
GetEntry(obj, name) == IF name = "__proto__" THEN EmptyObj ELSE Entry(obj, name)

InitRegistry ==
    /\ template = <<>>
    /\ data = Undefined
    /\ pc = "registry"
    /\ html = <<>>
    /\ warns = <<>>
    /\ prev = <<>>
    /\ path = <<>>
    /\ value = Undefined
    /\ componentElements = <<>>
    /\ registeredComponents = <<>>
    /\ componentTemplates \in {<<>>, "card" :> <<"x">>}
    /\ frame = Frame0
    /\ log = <<>>
    /\ NoOthers

\* one call; the log keeps the arguments of the call and, after them,
\* what console.error was given
RegisterCall ==
    /\ pc = "registry"
    /\ Len(SelectSeq(log, LAMBDA e : e.e = "registerComponent")) < MaxCalls
    /\ \E componentName \in RegisteredNames, templateUrl \in RegisteredUrls :
          IF componentName = "" \/ templateUrl = <<>>
          THEN /\ log' = log \o <<Event("registerComponent", 0, templateUrl,
                                         componentName),
                                   Event("error", 0, <<>>, Undefined)>>
               /\ UNCHANGED registeredComponents
          ELSE /\ log' = Append(log, Event("registerComponent", 0, templateUrl,
                                           componentName))
               /\ registeredComponents' =
                      SetEntry(registeredComponents, componentName, templateUrl)
    /\ UNCHANGED <<componentElements, componentTemplates, frame>>
    /\ UNCHANGED pureVars

NextRegistry == RegisterCall

SpecRegistry == InitRegistry /\ [][NextRegistry]_vars

\* ------------------------------------------------------------------------
\* C29: the frame of ts.registerComponent.  A call with a missing name or
\* url logs an error and leaves the registry as it was; any other call
\* makes registeredComponents[name] the url (whatever was registered under
\* the name before) and leaves the entries of all other names as they were;
\* no call touches the template cache.
C29_LastCall(lg) ==
    lg[CHOOSE k \in 1..Len(lg) :
          /\ lg[k].e = "registerComponent"
          /\ \A j \in (k + 1)..Len(lg) : lg[j].e # "registerComponent"]
C29_RegistryFrame ==
    [][(log' # log)
       => /\ componentTemplates' = componentTemplates
          /\ IF C29_LastCall(log').d = "" \/ C29_LastCall(log').t = <<>>
             THEN /\ registeredComponents' = registeredComponents
                  /\ log'[Len(log')].e = "error"
             ELSE /\ GetEntry(registeredComponents', C29_LastCall(log').d)
                     = Str(C29_LastCall(log').t)
                  /\ \A other \in RegisteredNames \ {C29_LastCall(log').d} :
                        GetEntry(registeredComponents', other)
                        = GetEntry(registeredComponents, other)]_vars

\* ------------------------------------------------------------------------
\* initComponents of src/ts-library.js (lines 236-292): a component element
\* may carry a data-url and a collection-url

\* the [ts-component] elements of the document: an element of the
\* registered component with any of the two urls, an element of a
\* component that nobody registered
LibraryElement(name, dataUrl, collectionUrl) ==
    [name |-> name, dataUrl |-> dataUrl, collectionUrl |-> collectionUrl,
     content |-> ParseHTML(OldContent)]
LibraryKinds ==
    {LibraryElement("card", d, c) : d \in {<<>>, <<"d">>}, c \in {<<>>, <<"c">>}}
    \cup {LibraryElement("list", <<>>, <<>>)}
LibraryDocuments == UNION {[1..n -> LibraryKinds] : n \in 0..MaxElements}
\* what a collection url may answer with
CollectionData ==
    {Arr(<<>>),
     Arr(<<Obj("title" :> Str(<<"A">>)), Obj("title" :> Str(<<"B">>))>>),
     EmptyObj}

\* lines 263-269 and 276-282: the placeholders of the template, each
\* replaced once with the value of its path (not trimmed) in the scope
InlineOne(markup, placeholder, scope) ==
    ReplaceFirst(markup, placeholder,
                 IF getNestedValue(scope, SubSeq(placeholder, 3, Len(placeholder) - 2)).t
                    # "undefined"
                 THEN StringOf(getNestedValue(scope,
                                   SubSeq(placeholder, 3, Len(placeholder) - 2)))
                 ELSE <<>>)
RECURSIVE InlineEach(_, _, _)
InlineEach(markup, placeholders, scope) ==
    IF placeholders = <<>> THEN markup
    ELSE InlineEach(InlineOne(markup, Head(placeholders), scope),
                    Tail(placeholders), scope)
RenderInline(markup, scope) == InlineEach(markup, MatchPlaceholders(markup), scope)

\* the if / else if / else of lines 259-287 with the two tests exchanged
BranchDataFirst(collectionUrl, dataUrl) ==
    IF dataUrl # <<>> THEN "data"
    ELSE IF collectionUrl # <<>> THEN "collection"
    ELSE "plain"

\* the if / else if / else of lines 259-287
Branch(collectionUrl, dataUrl) ==
    IF collectionUrl # <<>> THEN "collection"
    ELSE IF dataUrl # <<>> THEN "data"
    ELSE "plain"

InitLibrary ==
    /\ template = <<>>
    /\ data = Undefined
    /\ pc = "library"
    /\ html = <<>>
    /\ warns = <<>>
    /\ prev = <<>>
    /\ path = <<>>
    /\ value = Undefined
    /\ componentElements \in LibraryDocuments
    /\ registeredComponents = <<>>
    /\ componentTemplates = <<>>
    /\ frame = Frame0
    /\ log = <<>>
    /\ NoOthers

\* top of the loop body: the three attributes are read, the registry is
\* looked up
LibraryBegin ==
    /\ pc = "library"
    /\ frame.at = "element"
    /\ frame.i <= Len(componentElements)
    /\ IF Truthy(GetEntry(registeredComponents, componentElements[frame.i].name))
       THEN /\ frame' = [frame EXCEPT !.at = "template"]
            /\ UNCHANGED log
       ELSE /\ frame' = NextElement(frame)
            /\ log' = Append(log, Event("unregistered", frame.i, <<>>, Undefined))
    /\ UNCHANGED <<componentElements, registeredComponents, componentTemplates>>
    /\ UNCHANGED pureVars

\* lines 252-256: the cache test, the template fetch and its outcome, and
\* the cache read back
LibraryTemplate ==
    /\ pc = "library"
    /\ frame.at = "template"
    /\ IF Truthy(GetEntry(componentTemplates, componentElements[frame.i].name))
       THEN /\ frame' = [frame EXCEPT
                            !.at = "data",
                            !.templateHtml =
                                GetEntry(componentTemplates,
                                         componentElements[frame.i].name)]
            /\ UNCHANGED <<componentTemplates, log>>
       ELSE \/ \E templateHtml \in TemplateTexts :
                  /\ componentTemplates' =
                         SetEntry(componentTemplates,
                                  componentElements[frame.i].name, templateHtml)
                  /\ frame' = [frame EXCEPT
                                  !.at = "data",
                                  !.templateHtml =
                                      GetEntry(componentTemplates',
                                               componentElements[frame.i].name)]
                  /\ log' = Append(log, Event("fetched", frame.i, <<"template">>,
                                              Str(templateHtml)))
            \/ /\ frame' = NextElement(frame)
               /\ log' = Append(log, Event("rejected", frame.i, <<"template">>,
                                           Undefined))
               /\ UNCHANGED componentTemplates
    /\ UNCHANGED <<componentElements, registeredComponents>>
    /\ UNCHANGED pureVars

\* lines 260-272 with the collection the url answered with: forEach throws
\* on a value that is not an array, and the catch logs it
LibraryCollection(collectionData) ==
    IF collectionData.t # "array"
    THEN /\ log' = log \o <<Event("fetched", frame.i,
                                  componentElements[frame.i].collectionUrl,
                                  collectionData),
                            Event("error", frame.i, <<>>, Undefined)>>
         /\ UNCHANGED componentElements
    ELSE /\ log' = Append(log, Event("fetched", frame.i,
                                     componentElements[frame.i].collectionUrl,
                                     collectionData))
         /\ componentElements' =
                [componentElements EXCEPT
                    ![frame.i].content =
                        ParseHTML(Flatten(
                            [k \in 1..Len(collectionData.a) |->
                                RenderInline(StringOf(frame.templateHtml),
                                             collectionData.a[k])]))]

\* lines 275-283 with the object the data url answered with
LibraryData(d) ==
    /\ log' = Append(log, Event("fetched", frame.i,
                                componentElements[frame.i].dataUrl, d))
    /\ componentElements' =
           [componentElements EXCEPT
               ![frame.i].content =
                   ParseHTML(RenderInline(StringOf(frame.templateHtml), d))]

\* lines 259-287: the branch, its fetch with its outcome, the content
LibraryRender ==
    /\ pc = "library"
    /\ frame.at = "data"
    /\ \E b \in {Branch(componentElements[frame.i].collectionUrl,
                        componentElements[frame.i].dataUrl)} :
          \/ /\ b = "collection"
             /\ \E collectionData \in CollectionData : LibraryCollection(collectionData)
          \/ /\ b = "data"
             /\ \E d \in ComponentData : LibraryData(d)
          \/ /\ b \in {"collection", "data"}
             /\ log' = Append(log, Event("rejected", frame.i, <<b>>, Undefined))
             /\ UNCHANGED componentElements
          \/ /\ b = "plain"
             /\ componentElements' =
                    [componentElements EXCEPT
                        ![frame.i].content = ParseHTML(StringOf(frame.templateHtml))]
             /\ UNCHANGED log
    /\ frame' = NextElement(frame)
    /\ UNCHANGED <<registeredComponents, componentTemplates>>
    /\ UNCHANGED pureVars

NextLibrary ==
    \/ registerComponent \/ StartComponents \/ FinishComponents
    \/ LibraryBegin \/ LibraryTemplate \/ LibraryRender

SpecLibrary == InitLibrary /\ [][NextLibrary]_vars

\* ------------------------------------------------------------------------
\* C30: the three branches of initComponents in src/ts-library.js, for an
\* element of a registered component whose template is in hand.  With a
\* collection-url the only url fetched is that one, and when it answers
\* with an array the content is the template rendered with each item, in
\* order; else with a data-url the content is the template rendered with
\* the fetched object; else the content is the template and nothing is
\* fetched.  The content is what innerHTML makes of the markup.
C30_Fetched(lg, lg2) ==
    SelectSeq(SubSeq(lg2, Len(lg) + 1, Len(lg2)), LAMBDA e : e.e = "fetched")
C30_Items(tpl, items) ==
    Flatten([k \in 1..Len(items) |-> RenderInline(tpl, items[k])])
C30_Branches ==
    [][(pc = "library" /\ frame.at = "data" /\ frame' # frame)
       => LET i == frame.i
              el == componentElements[i]
              tpl == StringOf(frame.templateHtml)
              fetched == C30_Fetched(log, log')
          IN /\ Len(fetched) <= 1
             /\ \A k \in 1..Len(componentElements) :
                   k # i => componentElements'[k] = componentElements[k]
             /\ IF el.collectionUrl # <<>>
                THEN /\ \A k \in 1..Len(fetched) : fetched[k].t = el.collectionUrl
                     /\ (Len(fetched) = 1 /\ fetched[1].d.t = "array")
                        => componentElements'[i].content
                           = ParseHTML(C30_Items(tpl, fetched[1].d.a))
                ELSE IF el.dataUrl # <<>>
                THEN /\ \A k \in 1..Len(fetched) : fetched[k].t = el.dataUrl
                     /\ Len(fetched) = 1
                        => componentElements'[i].content
                           = ParseHTML(RenderInline(tpl, fetched[1].d))
                ELSE /\ fetched = <<>>
                     /\ componentElements'[i].content = ParseHTML(tpl)]_vars
\* an element with both urls holds the two items of its collection, and
\* the element after it, with a data-url only, the one fetched object
C30_Witness ==
    /\ pc = "library"
    /\ frame.at = "done"
    /\ Len(componentElements) = 2
    /\ componentElements[1].collectionUrl # <<>>
    /\ componentElements[1].dataUrl # <<>>
    /\ componentElements[1].content = ParseHTML(<<"x", "A", "x", "B">>)
    /\ componentElements[2].collectionUrl = <<>>
    /\ componentElements[2].dataUrl # <<>>
    /\ componentElements[2].content = ParseHTML(<<"x", "Page">>)

=============================================================================
